---- MODULE Spec2Model ----
(***************************************************************************)
(* Model of the ai-schedule-web engines:                                   *)
(*   - lib/schedule-engine.ts : Calendar, HierarchicalSchedule             *)
(*   - lib/nl-parser.ts       : ScheduleEditor                             *)
(*                                                                         *)
(* Dates are instants counted in ticks, TicksPerDay ticks to a calendar    *)
(* day, so that a Date carrying a time of day differs from the midnight    *)
(* of its day.  Day 0 is a Sunday (getDay() = 0); tick 0 is the epoch      *)
(* (new Date(0)).  The process time zone is UTC.                           *)
(* Strings that the code inspects character by character (ids, command     *)
(* texts) are sequences of one-character strings.                          *)
(***************************************************************************)
EXTENDS Integers, Sequences, FiniteSets, TLC

(***************************************************************************)
(* Bounds of the model                                                     *)
(***************************************************************************)
MaxDays == 3
MaxStartDay == 23
MaxTasks == 3
MaxDuration == 2

TicksPerDay == 2
NoDate == -1
Hang == -2

(***************************************************************************)
(* Generic helpers                                                         *)
(***************************************************************************)
SeqToSet(s) == { s[i] : i \in 1..Len(s) }

SetMax(S) == CHOOSE x \in S : \A y \in S : y <= x

SetMin(S) == CHOOSE x \in S : \A y \in S : x <= y

Contains(s, x) == \E i \in 1..Len(s) : s[i] = x

\* x || 0 on an optional number: absent and 0 both give 0
OrZero(opt) == IF opt = <<>> THEN 0 ELSE opt[1]

Min(a, b) == IF a < b THEN a ELSE b

Max(a, b) == IF a > b THEN a ELSE b

\* the concatenation of a sequence of sequences
RECURSIVE Flatten(_)
Flatten(seqs) == IF seqs = <<>> THEN <<>> ELSE Head(seqs) \o Flatten(Tail(seqs))

(***************************************************************************)
(* date-fns                                                                *)
(***************************************************************************)
addDays(date, amount) == date + amount * TicksPerDay

\* full days between two instants, truncated toward zero
differenceInDays(dateLeft, dateRight) ==
  LET diff == dateLeft - dateRight
  IN  IF diff >= 0 THEN diff \div TicksPerDay ELSE -((-diff) \div TicksPerDay)

getDay(date) == (date \div TicksPerDay) % 7

(***************************************************************************)
(* Calendar                                                                *)
(***************************************************************************)
dayNames == <<"Sun", "Mon", "Tue", "Wed", "Thu", "Fri", "Sat">>

CALENDAR_DAYS == "calendar_days"
WORKING_DAYS == "working_days"

isWorkingDay(cal, dt) ==
  IF dt \in cal.holidays
    THEN FALSE
    ELSE dayNames[getDay(dt) + 1] \in cal.working_days

\* the while loop of addWorkingDays never ends when it still has days to
\* add and no later day is a working day: the holidays are finitely many,
\* so this is the case exactly when no weekday name is a working day
NeverWorks(cal) == \A i \in 1..7 : dayNames[i] \notin cal.working_days

RECURSIVE addWorkingDaysLoop(_, _, _, _)
addWorkingDaysLoop(cal, current, daysAdded, days) ==
  IF daysAdded < days
    THEN LET next == addDays(current, 1)
         IN  addWorkingDaysLoop(cal, next,
               IF isWorkingDay(cal, next) THEN daysAdded + 1 ELSE daysAdded, days)
    ELSE current

addWorkingDays(cal, startDate, days) ==
  IF cal.duration_unit = CALENDAR_DAYS
    THEN addDays(startDate, days)
    ELSE IF days > 0 /\ NeverWorks(cal)
      THEN Hang
      ELSE addWorkingDaysLoop(cal, startDate, 0, days)

RECURSIVE workingDaysBetweenLoop(_, _, _, _)
\* mutant: the end date is counted too (current <= endDate)
workingDaysBetweenLoopClosed(cal, current, endDate, count) ==
  IF current <= endDate
    THEN workingDaysBetweenLoop(cal, addDays(current, 1), endDate,
           IF isWorkingDay(cal, current) THEN count + 1 ELSE count)
    ELSE count

workingDaysBetweenLoop(cal, current, endDate, count) ==
  IF current < endDate
    THEN workingDaysBetweenLoop(cal, addDays(current, 1), endDate,
           IF isWorkingDay(cal, current) THEN count + 1 ELSE count)
    ELSE count

workingDaysBetween(cal, startDate, endDate) ==
  IF cal.duration_unit = CALENDAR_DAYS
    THEN differenceInDays(endDate, startDate)
    ELSE workingDaysBetweenLoop(cal, startDate, endDate, 0)

(***************************************************************************)
(* The parsed specification (the value of yaml.load)                       *)
(*   data.project.start_date : optional raw date                           *)
(*   data.calendar           : working_days, holidays, duration_unit       *)
(*   data.phases             : phases > workstreams > tasks                *)
(* An optional key is <<>> when absent and <<v>> when present.  A raw date *)
(* is [kind |-> "Date" | "string", day |-> n]: YAML timestamps load as     *)
(* Date objects, quoted dates as strings.  An id is a sequence of          *)
(* characters, <<>> when the entry has no id.                              *)
(***************************************************************************)
NoId == <<>>

parseDate(d) == d.day * TicksPerDay

DEFAULT_START_DAY == 17

DefaultWorkingDays == {"Mon", "Tue", "Wed", "Thu", "Fri"}

(***************************************************************************)
(* Map<string, Task>: insertion-ordered keys, set() on an existing key     *)
(* replaces the value and keeps the key's position                         *)
(***************************************************************************)
EmptyMap == [order |-> <<>>, get |-> [k \in {} |-> 0]]

MapHas(m, k) == k \in DOMAIN m.get

MapSet(m, k, v) ==
  [order |-> IF MapHas(m, k) THEN m.order ELSE Append(m.order, k),
   get   |-> [x \in (DOMAIN m.get) \cup {k} |-> IF x = k THEN v ELSE m.get[x]]]

MapValues(m) == [i \in 1..Len(m.order) |-> m.get[m.order[i]]]

(***************************************************************************)
(* HierarchicalSchedule.load: hierarchy                                    *)
(***************************************************************************)
SummaryTask(id, level, phaseId) ==
  [id |-> id, level |-> level, parent_id |-> phaseId, phase_id |-> phaseId,
   workstream_id |-> NoId, duration |-> 0, dependencies |-> <<>>,
   successors |-> <<>>, progress |-> 0, status |-> "not_started",
   milestone |-> FALSE, actual_start |-> NoDate, actual_finish |-> NoDate,
   constraint |-> NoDate, start_date |-> NoDate, end_date |-> NoDate,
   late_start |-> NoDate, late_finish |-> NoDate, float_days |-> 0,
   is_critical |-> FALSE]

parseDependency(dep) ==
  [task_id |-> dep.id,
   lag |-> IF dep.kind = "object" THEN OrZero(dep.lag) ELSE 0]

OptDate(opt) == IF opt = <<>> THEN NoDate ELSE parseDate(opt[1])

parseTask(taskData, phaseId, wsId) ==
  [id |-> taskData.id, level |-> 3, parent_id |-> wsId, phase_id |-> phaseId,
   workstream_id |-> wsId,
   duration |-> OrZero(taskData.duration),
   dependencies |->
     IF taskData.depends_on = <<>>
       THEN <<>>
       ELSE [i \in 1..Len(taskData.depends_on[1]) |->
               parseDependency(taskData.depends_on[1][i])],
   successors |-> <<>>,
   progress |-> OrZero(taskData.progress),
   status |-> IF taskData.status = <<>> THEN "not_started" ELSE taskData.status[1],
   milestone |-> taskData.milestone = <<TRUE>>,
   actual_start |-> OptDate(taskData.actual_start),
   actual_finish |-> OptDate(taskData.actual_finish),
   constraint |-> OptDate(taskData.constraint),
   start_date |-> OptDate(taskData.start),
   end_date |-> NoDate, late_start |-> NoDate, late_finish |-> NoDate,
   float_days |-> 0, is_critical |-> FALSE]

RECURSIVE loadTasks(_, _, _, _, _)
loadTasks(s, taskList, i, phaseId, wsId) ==
  IF i > Len(taskList)
    THEN s
    ELSE LET task == parseTask(taskList[i], phaseId, wsId)
         IN  loadTasks([s EXCEPT !.tasks = MapSet(@, task.id, task)],
                       taskList, i + 1, phaseId, wsId)

RECURSIVE loadWorkstreams(_, _, _, _)
loadWorkstreams(s, wsList, i, phaseId) ==
  IF i > Len(wsList)
    THEN s
    ELSE LET ws == wsList[i]
             s1 == [s EXCEPT !.workstreams = Append(@, ws.id),
                             !.tasks = MapSet(@, ws.id, SummaryTask(ws.id, 2, phaseId))]
         IN  loadWorkstreams(loadTasks(s1, ws.tasks, 1, phaseId, ws.id),
                             wsList, i + 1, phaseId)

RECURSIVE loadPhases(_, _, _)
loadPhases(s, phaseList, i) ==
  IF i > Len(phaseList)
    THEN s
    ELSE LET phase == phaseList[i]
             s1 == [s EXCEPT !.phases = Append(@, phase.id),
                             !.tasks = MapSet(@, phase.id, SummaryTask(phase.id, 1, NoId))]
         IN  loadPhases(loadWorkstreams(s1, phase.workstreams, 1, phase.id),
                        phaseList, i + 1)

loadCalendar(calData) ==
  [working_days |-> IF calData.working_days = <<>>
                      THEN DefaultWorkingDays ELSE calData.working_days[1],
   holidays |-> { parseDate(calData.holidays[i]) : i \in 1..Len(calData.holidays) },
   duration_unit |-> IF calData.duration_unit = <<>>
                       THEN WORKING_DAYS ELSE calData.duration_unit[1]]

loadProjectStart(projectData) ==
  IF projectData.start_date = <<>>
    THEN DEFAULT_START_DAY * TicksPerDay
    ELSE parseDate(projectData.start_date[1])

(***************************************************************************)
(* HierarchicalSchedule.validate                                           *)
(***************************************************************************)
NoError == [kind |-> "none", task |-> NoId, path |-> <<>>]

ValidationError(kind, task, path) == [kind |-> kind, task |-> task, path |-> path]

\* index of the first element of s satisfying P, 0 when there is none
FirstIndex(s, P(_)) ==
  IF \E i \in 1..Len(s) : P(s[i])
    THEN CHOOSE i \in 1..Len(s) : P(s[i]) /\ \A j \in 1..(i - 1) : ~P(s[j])
    ELSE 0

RECURSIVE visit(_, _, _, _)
RECURSIVE visitDependencies(_, _, _, _, _)
\* mutant: the path reported is the stack without the repeated id
visitStackOnly(m, taskId, visited, stack) ==
  IF Contains(stack, taskId)
    THEN [visited |-> visited, cycle |-> stack]
    ELSE IF taskId \in visited \/ ~MapHas(m, taskId)
      THEN [visited |-> visited \cup {taskId}, cycle |-> <<>>]
      ELSE visitDependencies(m, m.get[taskId].dependencies, 1,
                             visited \cup {taskId}, Append(stack, taskId))

\* returns the visited set and the cycle path thrown, <<>> when none
visit(m, taskId, visited, stack) ==
  IF Contains(stack, taskId)
    THEN [visited |-> visited, cycle |-> Append(stack, taskId)]
    ELSE IF taskId \in visited
      THEN [visited |-> visited, cycle |-> <<>>]
      ELSE IF ~MapHas(m, taskId)
        THEN [visited |-> visited \cup {taskId}, cycle |-> <<>>]
        ELSE visitDependencies(m, m.get[taskId].dependencies, 1,
                               visited \cup {taskId}, Append(stack, taskId))

visitDependencies(m, deps, i, visited, stack) ==
  IF i > Len(deps)
    THEN [visited |-> visited, cycle |-> <<>>]
    ELSE LET r == visit(m, deps[i].task_id, visited, stack)
         IN  IF r.cycle # <<>>
               THEN r
               ELSE visitDependencies(m, deps, i + 1, r.visited, stack)

RECURSIVE checkCircularFrom(_, _, _)
checkCircularFrom(m, i, visited) ==
  IF i > Len(m.order)
    THEN <<>>
    ELSE LET r == visit(m, m.order[i], visited, <<>>)
         IN  IF r.cycle # <<>> THEN r.cycle ELSE checkCircularFrom(m, i + 1, r.visited)

checkCircularDependencies(m) == checkCircularFrom(m, 1, {})

validate(m) ==
  LET values == MapValues(m)
      missing == FirstIndex(values, LAMBDA t : t.id = NoId)
      \* ids.has(task.id) while walking the values in order
      duplicate == IF \E i \in 1..Len(values) : \E j \in 1..(i - 1) : values[j].id = values[i].id
                     THEN CHOOSE i \in 1..Len(values) :
                            /\ \E j \in 1..(i - 1) : values[j].id = values[i].id
                            /\ \A k \in 1..(i - 1) : \A j \in 1..(k - 1) : values[j].id # values[k].id
                     ELSE 0
      unresolvedDep(t) == FirstIndex(t.dependencies, LAMBDA dep : ~MapHas(m, dep.task_id))
      unresolved == FirstIndex(values, LAMBDA t : unresolvedDep(t) # 0)
      cycle == checkCircularDependencies(m)
      milestone == FirstIndex(values, LAMBDA t : t.milestone /\ t.duration # 0)
      progress == FirstIndex(values, LAMBDA t : t.progress < 0 \/ t.progress > 100)
  IN  IF missing # 0
        THEN ValidationError("missing_id", NoId, <<>>)
      ELSE IF duplicate # 0
        THEN ValidationError("duplicate_id", values[duplicate].id, <<>>)
      ELSE IF unresolved # 0
        THEN ValidationError("unresolved_dependency", values[unresolved].id,
               <<values[unresolved].dependencies[unresolvedDep(values[unresolved])].task_id>>)
      ELSE IF cycle # <<>>
        THEN ValidationError("circular_dependency", cycle[Len(cycle)], cycle)
      ELSE IF milestone # 0
        THEN ValidationError("milestone_duration", values[milestone].id, <<>>)
      ELSE IF progress # 0
        THEN ValidationError("progress_range", values[progress].id, <<>>)
      ELSE NoError

(***************************************************************************)
(* HierarchicalSchedule.buildSuccessors                                    *)
(***************************************************************************)
\* the ids pushed onto predId's successors while walking task's dependencies
pushedBy(task, predId) ==
  LET hits == SelectSeq(task.dependencies, LAMBDA dep : dep.task_id = predId)
  IN  [k \in 1..Len(hits) |-> task.id]

RECURSIVE successorsOf(_, _, _)
successorsOf(m, predId, i) ==
  IF i > Len(m.order)
    THEN <<>>
    ELSE pushedBy(m.get[m.order[i]], predId) \o successorsOf(m, predId, i + 1)

buildSuccessors(m) ==
  [m EXCEPT !.get = [id \in DOMAIN m.get |->
                       [m.get[id] EXCEPT !.successors = successorsOf(m, id, 1)]]]

(***************************************************************************)
(* HierarchicalSchedule.calculateDates (forward pass)                      *)
(* ctx = [calendar, project_start, now]; s = [get, visited, hang], where    *)
(* hang records that a call of addWorkingDays made so far does not return  *)
(***************************************************************************)
addDuration(cal, start, days) ==
  IF days = 0 THEN start ELSE addWorkingDays(cal, start, days)

RECURSIVE maxPredFinish(_, _, _, _, _)
maxPredFinish(ctx, get, deps, i, acc) ==
  IF i > Len(deps)
    THEN acc
    ELSE LET dep == deps[i]
             hasEnd == dep.task_id \in DOMAIN get /\ get[dep.task_id].end_date # NoDate
             predFinish == addWorkingDays(ctx.calendar, get[dep.task_id].end_date, dep.lag)
         IN  maxPredFinish(ctx, get, deps, i + 1,
               IF hasEnd /\ predFinish > acc THEN predFinish ELSE acc)

\* Math.ceil((duration * (100 - progress)) / 100)
remainingDays(task) == (task.duration * (100 - task.progress) + 99) \div 100

\* mutant: the early start is the project start
earlyStartOfProjectStart(ctx, get, task) == ctx.project_start

earlyStartOf(ctx, get, task) ==
  LET fromPreds == maxPredFinish(ctx, get, task.dependencies, 1, 0)
      base == IF task.actual_start # NoDate
                THEN task.actual_start
              ELSE IF task.start_date # NoDate /\ Len(task.dependencies) = 0
                THEN task.start_date
              ELSE IF Len(task.dependencies) > 0 /\ fromPreds > 0
                THEN fromPreds
              ELSE ctx.project_start
  IN  IF task.constraint # NoDate /\ base < task.constraint
        THEN task.constraint
        ELSE base

\* a call of addWorkingDays in the loop over the dependencies does not return
predFinishHangs(ctx, get, task) ==
  /\ task.actual_start = NoDate
  /\ ~(task.start_date # NoDate /\ Len(task.dependencies) = 0)
  /\ \E i \in 1..Len(task.dependencies) :
       LET dep == task.dependencies[i]
       IN  /\ dep.task_id \in DOMAIN get
           /\ get[dep.task_id].end_date # NoDate
           /\ addWorkingDays(ctx.calendar, get[dep.task_id].end_date, dep.lag) = Hang

endDateOf(ctx, task, earlyStart) ==
  IF task.progress = 100
    THEN IF task.actual_finish # NoDate
           THEN task.actual_finish
           ELSE addDuration(ctx.calendar, earlyStart, task.duration)
  ELSE IF task.progress > 0 /\ task.actual_start # NoDate
    THEN addWorkingDays(ctx.calendar, ctx.now, remainingDays(task))
  ELSE addDuration(ctx.calendar, earlyStart, task.duration)

RECURSIVE calcTask(_, _, _)
RECURSIVE calcPredecessors(_, _, _, _)
calcTask(ctx, s, taskId) ==
  IF taskId \in s.visited \/ taskId \notin DOMAIN s.get
    THEN s
    ELSE
      LET task == s.get[taskId]
      IN  IF task.level < 3
            THEN [s EXCEPT !.visited = @ \cup {taskId}]
          ELSE IF task.actual_finish # NoDate
            THEN LET start == IF task.actual_start # NoDate
                                THEN task.actual_start
                                ELSE addDuration(ctx.calendar, task.actual_finish,
                                                 -task.duration)
                 IN  [get |-> [s.get EXCEPT ![taskId] =
                         [@ EXCEPT !.end_date = task.actual_finish,
                                   !.start_date = start]],
                      visited |-> s.visited \cup {taskId},
                      hang |-> s.hang \/ start = Hang]
          ELSE
            LET s1 == calcPredecessors(ctx, s, task.dependencies, 1)
                earlyStart == earlyStartOf(ctx, s1.get, task)
                end == endDateOf(ctx, task, earlyStart)
            IN  [get |-> [s1.get EXCEPT ![taskId] =
                    [@ EXCEPT !.start_date = earlyStart, !.end_date = end]],
                 visited |-> s1.visited \cup {taskId},
                 hang |-> s1.hang \/ predFinishHangs(ctx, s1.get, task) \/ end = Hang]

calcPredecessors(ctx, s, deps, i) ==
  IF i > Len(deps)
    THEN s
    ELSE calcPredecessors(ctx, calcTask(ctx, s, deps[i].task_id), deps, i + 1)

RECURSIVE calcAllTasks(_, _, _, _)
calcAllTasks(ctx, s, order, i) ==
  IF i > Len(order)
    THEN s
    ELSE calcAllTasks(ctx, calcTask(ctx, s, order[i]), order, i + 1)

calculateDates(ctx, m) ==
  [m EXCEPT !.get = calcAllTasks(ctx, [get |-> m.get, visited |-> {}, hang |-> FALSE],
                                 m.order, 1).get]

\* the forward pass makes a call of addWorkingDays that does not return
calculateDatesHangs(ctx, m) ==
  calcAllTasks(ctx, [get |-> m.get, visited |-> {}, hang |-> FALSE], m.order, 1).hang

(***************************************************************************)
(* HierarchicalSchedule.rollupSummaries                                    *)
(***************************************************************************)
\* mutant: complete ranks above on_track
statusPriorityCompleteFirst(status) ==
  CASE status = "delayed" -> 4
    [] status = "at_risk" -> 3
    [] status = "complete" -> 2
    [] status = "on_track" -> 1
    [] OTHER -> 0

statusPriority(status) ==
  CASE status = "delayed" -> 4
    [] status = "at_risk" -> 3
    [] status = "on_track" -> 2
    [] status = "complete" -> 1
    [] OTHER -> 0

RECURSIVE worstStatus(_, _, _)
worstStatus(children, i, worst) ==
  IF i > Len(children)
    THEN worst
    ELSE worstStatus(children, i + 1,
           IF statusPriority(children[i].status) > statusPriority(worst)
             THEN children[i].status ELSE worst)

RECURSIVE sumDuration(_, _)
sumDuration(children, i) ==
  IF i > Len(children) THEN 0 ELSE children[i].duration + sumDuration(children, i + 1)

RECURSIVE sumWeightedProgress(_, _)
sumWeightedProgress(children, i) ==
  IF i > Len(children)
    THEN 0
    ELSE children[i].progress * children[i].duration + sumWeightedProgress(children, i + 1)

\* mutant: the quotient is truncated
roundDivDown(numerator, denominator) == numerator \div denominator

\* Math.round(numerator / denominator) for numerator >= 0, denominator > 0
roundDiv(numerator, denominator) == (2 * numerator + denominator) \div (2 * denominator)

\* mutant: a summary takes the dates of its first child
rollupTaskFirstChild(cal, summary, children) ==
  [summary EXCEPT !.start_date = children[1].start_date,
                  !.end_date = children[1].end_date]

\* the summary task after its rollup from the (non-empty) list of children
rollupTask(cal, summary, children) ==
  LET starts == { children[i].start_date : i \in 1..Len(children) } \ {NoDate}
      ends == { children[i].end_date : i \in 1..Len(children) } \ {NoDate}
      start == IF starts # {} THEN SetMin(starts) ELSE summary.start_date
      end == IF ends # {} THEN SetMax(ends) ELSE summary.end_date
      totalDuration == sumDuration(children, 1)
  IN  [summary EXCEPT
         !.start_date = start,
         !.end_date = end,
         !.duration = IF start # NoDate /\ end # NoDate
                        THEN workingDaysBetween(cal, start, end) ELSE @,
         !.progress = IF totalDuration > 0
                        THEN roundDiv(sumWeightedProgress(children, 1), totalDuration)
                        ELSE @,
         !.status = worstStatus(children, 1, "not_started")]

RECURSIVE rollupWorkstreams(_, _, _, _)
rollupWorkstreams(cal, m, workstreams, i) ==
  IF i > Len(workstreams)
    THEN m
    ELSE
      LET wsId == workstreams[i]
          wsTasks == SelectSeq(MapValues(m),
                               LAMBDA t : t.workstream_id = wsId /\ t.level = 3)
      IN  rollupWorkstreams(cal,
            IF ~MapHas(m, wsId) \/ Len(wsTasks) = 0
              THEN m
              ELSE [m EXCEPT !.get[wsId] = rollupTask(cal, @, wsTasks)],
            workstreams, i + 1)

RECURSIVE rollupPhases(_, _, _, _)
rollupPhases(cal, m, phases, i) ==
  IF i > Len(phases)
    THEN m
    ELSE
      LET phaseId == phases[i]
          phaseWs == SelectSeq(MapValues(m),
                               LAMBDA t : t.phase_id = phaseId /\ t.level = 2)
      IN  rollupPhases(cal,
            IF ~MapHas(m, phaseId) \/ Len(phaseWs) = 0
              THEN m
              ELSE [m EXCEPT !.get[phaseId] = rollupTask(cal, @, phaseWs)],
            phases, i + 1)

rollupSummaries(cal, m, phases, workstreams) ==
  rollupPhases(cal, rollupWorkstreams(cal, m, workstreams, 1), phases, 1)

(***************************************************************************)
(* HierarchicalSchedule.calculateCriticalPath (backward pass)              *)
(***************************************************************************)
\* succ.dependencies.find(d => d.task_id === taskId)?.lag || 0
lagTo(succ, taskId) ==
  LET k == FirstIndex(succ.dependencies, LAMBDA d : d.task_id = taskId)
  IN  IF k = 0 THEN 0 ELSE succ.dependencies[k].lag

RECURSIVE minSuccStart(_, _, _, _, _, _)
minSuccStart(cal, get, taskId, successors, i, acc) ==
  IF i > Len(successors)
    THEN acc
    ELSE LET hasLate == successors[i] \in DOMAIN get
                          /\ get[successors[i]].late_start # NoDate
             succ == get[successors[i]]
             succStart == addWorkingDays(cal, succ.late_start, -lagTo(succ, taskId))
         IN  minSuccStart(cal, get, taskId, successors, i + 1,
               IF hasLate /\ succStart < acc THEN succStart ELSE acc)

\* a call of addWorkingDays in the loop over the successors does not return
succStartHangs(cal, get, taskId, successors) ==
  \E i \in 1..Len(successors) :
    /\ successors[i] \in DOMAIN get
    /\ get[successors[i]].late_start # NoDate
    /\ addWorkingDays(cal, get[successors[i]].late_start,
                      -lagTo(get[successors[i]], taskId)) = Hang

RECURSIVE calcLate(_, _, _, _)
RECURSIVE calcSuccessors(_, _, _, _, _)
calcLate(cal, projectEnd, s, taskId) ==
  IF taskId \in s.visited
    THEN s
  ELSE IF taskId \notin DOMAIN s.get \/ s.get[taskId].level < 3
    THEN [s EXCEPT !.visited = @ \cup {taskId}]
  ELSE
    LET task == s.get[taskId]
        s1 == calcSuccessors(cal, projectEnd, s, task.successors, 1)
        minStart == minSuccStart(cal, s1.get, taskId, task.successors, 1, projectEnd)
        lateFinish == IF Len(task.successors) > 0 /\ minStart < projectEnd
                        THEN minStart ELSE projectEnd
        lateStart == addDuration(cal, lateFinish, -task.duration)
        float == workingDaysBetween(cal, task.end_date, lateFinish)
    IN  [get |-> [s1.get EXCEPT ![taskId] =
            [@ EXCEPT !.late_finish = lateFinish,
                      !.late_start = lateStart,
                      !.float_days = IF task.end_date # NoDate THEN float ELSE @,
                      !.is_critical = IF task.end_date # NoDate THEN float <= 0 ELSE @]],
         visited |-> s1.visited \cup {taskId},
         hang |-> s1.hang \/ succStartHangs(cal, s1.get, taskId, task.successors)
                    \/ lateStart = Hang]

calcSuccessors(cal, projectEnd, s, successors, i) ==
  IF i > Len(successors)
    THEN s
    ELSE calcSuccessors(cal, projectEnd, calcLate(cal, projectEnd, s, successors[i]),
                        successors, i + 1)

RECURSIVE calcAllLate(_, _, _, _, _)
calcAllLate(cal, projectEnd, s, order, i) ==
  IF i > Len(order)
    THEN s
    ELSE calcAllLate(cal, projectEnd, calcLate(cal, projectEnd, s, order[i]), order, i + 1)

\* the end dates of the level-3 tasks
allEndDates(m) ==
  { m.get[id].end_date : id \in { x \in DOMAIN m.get : m.get[x].level = 3 } } \ {NoDate}

\* mutant: the project ends a week after its last task
projectEndNextWeek(m) == addDays(SetMax(allEndDates(m)), 7)

\* the project end of the backward pass
projectEnd(m) == SetMax(allEndDates(m))

calculateCriticalPath(cal, m) ==
  IF allEndDates(m) = {}
    THEN m
    ELSE [m EXCEPT !.get = calcAllLate(cal, projectEnd(m),
                             [get |-> m.get, visited |-> {}, hang |-> FALSE],
                             m.order, 1).get]

\* the backward pass makes a call of addWorkingDays that does not return
calculateCriticalPathHangs(cal, m) ==
  /\ allEndDates(m) # {}
  /\ calcAllLate(cal, projectEnd(m), [get |-> m.get, visited |-> {}, hang |-> FALSE],
                 m.order, 1).hang

(***************************************************************************)
(* new HierarchicalSchedule(yamlContent), from the parsed data             *)
(***************************************************************************)
NoSchedule ==
  [state |-> "none", error |-> NoError, tasks |-> EmptyMap, phases |-> <<>>,
   workstreams |-> <<>>, calendar |-> loadCalendar([working_days |-> <<>>,
   holidays |-> <<>>, duration_unit |-> <<>>]), project_start |-> 0]

load(data, now) ==
  LET calendar == loadCalendar(data.calendar)
      project_start == loadProjectStart(data.project)
      h == loadPhases([tasks |-> EmptyMap, phases |-> <<>>, workstreams |-> <<>>],
                      data.phases, 1)
      error == validate(h.tasks)
      ctx == [calendar |-> calendar, project_start |-> project_start, now |-> now]
      dated == calculateDates(ctx, buildSuccessors(h.tasks))
      rolled == rollupSummaries(calendar, dated, h.phases, h.workstreams)
      final == calculateCriticalPath(calendar, rolled)
  IN  IF error.kind # "none"
        THEN [state |-> "error", error |-> error, tasks |-> EmptyMap,
              phases |-> <<>>, workstreams |-> <<>>, calendar |-> calendar,
              project_start |-> project_start]
      ELSE IF calculateDatesHangs(ctx, buildSuccessors(h.tasks))
                \/ calculateCriticalPathHangs(calendar, rolled)
        THEN [state |-> "hang", error |-> NoError, tasks |-> EmptyMap,
              phases |-> <<>>, workstreams |-> <<>>, calendar |-> calendar,
              project_start |-> project_start]
        ELSE [state |-> "loaded", error |-> NoError, tasks |-> final,
              phases |-> h.phases, workstreams |-> h.workstreams,
              calendar |-> calendar, project_start |-> project_start]

\* HierarchicalSchedule.getProjectDates of a loaded schedule
getProjectDates(s) ==
  LET phases == { s.tasks.get[id] : id \in { x \in DOMAIN s.tasks.get : s.tasks.get[x].level = 1 } }
      allStartDates == { t.start_date : t \in phases } \ {NoDate}
      allEndDates1 == { t.end_date : t \in phases } \ {NoDate}
      start == IF allStartDates # {} THEN SetMin(allStartDates) ELSE s.project_start
      end == IF allEndDates1 # {} THEN SetMax(allEndDates1) ELSE s.project_start
  IN  [start |-> start, end |-> end,
       duration |-> workingDaysBetween(s.calendar, start, end)]

(***************************************************************************)
(* js-yaml: the specification text and its parsed value                    *)
(* The text has the shape of the parsed value; a date scalar of the text   *)
(* is [style |-> "date" | "iso" | "quoted", day |-> n]: the plain scalars  *)
(* 2025-01-15 and 2025-01-15T00:00:00.000Z load as Date objects, the       *)
(* quoted scalar '2025-01-15' as a string; a Date is dumped in ISO form    *)
(* and a date string is dumped quoted.                                     *)
(***************************************************************************)
\* what yaml.load gives for an empty text, and the error thrown when a
\* property of undefined is read
NoData == [undefined |-> TRUE]

TypeError == [threw |-> "TypeError"]

EmptyText == [empty |-> TRUE]

yamlLoadDate(t) ==
  [kind |-> IF t.style = "quoted" THEN "string" ELSE "Date", day |-> t.day]

yamlDumpDate(d) ==
  [style |-> IF d.kind = "string" THEN "quoted" ELSE "iso", day |-> d.day]

\* a date scalar read ("load") or written ("dump")
yamlDate(dir, d) == IF dir = "load" THEN yamlLoadDate(d) ELSE yamlDumpDate(d)

yamlOptDate(dir, opt) == IF opt = <<>> THEN <<>> ELSE <<yamlDate(dir, opt[1])>>

\* the fields of an entry that hold a date
DateFields == {"actual_start", "actual_finish", "constraint", "start"}

yamlEntry(dir, entry) ==
  [f \in DOMAIN entry |->
     IF f \in DateFields THEN yamlOptDate(dir, entry[f]) ELSE entry[f]]

yamlDocument(dir, doc) ==
  [project |-> [start_date |-> yamlOptDate(dir, doc.project.start_date)],
   calendar |-> [doc.calendar EXCEPT
                   !.holidays = [i \in 1..Len(@) |-> yamlDate(dir, @[i])]],
   phases |-> [p \in 1..Len(doc.phases) |->
     [yamlEntry(dir, doc.phases[p]) EXCEPT !.workstreams = [w \in 1..Len(@) |->
        [yamlEntry(dir, @[w]) EXCEPT !.tasks = [k \in 1..Len(@) |->
           yamlEntry(dir, @[k])]]]]]]

\* yaml.load: an empty text gives undefined
yamlLoad(text) == IF text = EmptyText THEN NoData ELSE yamlDocument("load", text)

yamlDump(data) == yamlDocument("dump", data)

\* a depends_on item: an id, or {id, lag}
DepString(id) == [kind |-> "string", id |-> id, lag |-> <<>>]

DepObject(id, lag) == [kind |-> "object", id |-> id, lag |-> <<lag>>]

(***************************************************************************)
(* Strings.  A JavaScript string is modelled as the sequence of its        *)
(* characters; Chars turns a TLA+ string into that sequence.               *)
(***************************************************************************)
Chars(s) == [i \in 1..Len(s) |-> SubSeq(s, i, i)]

UpperLetters == Chars("ABCDEFGHIJKLMNOPQRSTUVWXYZ")

LowerLetters == Chars("abcdefghijklmnopqrstuvwxyz")

Digits == Chars("0123456789")

\* the characters matched by \s, \d and \w
SpaceChars == {" ", "\t", "\n"}

DigitChars == SeqToSet(Digits)

WordChars == SeqToSet(UpperLetters) \cup SeqToSet(LowerLetters) \cup DigitChars \cup {"_"}

IndexOfChar(s, c) ==
  LET hits == { i \in 1..Len(s) : s[i] = c } IN IF hits = {} THEN 0 ELSE SetMin(hits)

\* String.prototype.toLowerCase / toUpperCase
toLowerCase(text) ==
  [i \in 1..Len(text) |->
     LET k == IndexOfChar(UpperLetters, text[i])
     IN  IF k > 0 THEN LowerLetters[k] ELSE text[i]]

toUpperCase(text) ==
  [i \in 1..Len(text) |->
     LET k == IndexOfChar(LowerLetters, text[i])
     IN  IF k > 0 THEN UpperLetters[k] ELSE text[i]]

\* String.prototype.trim
RECURSIVE trimStart(_)
trimStart(text) ==
  IF text # <<>> /\ Head(text) \in SpaceChars THEN trimStart(Tail(text)) ELSE text

RECURSIVE trimEnd(_)
trimEnd(text) ==
  IF text # <<>> /\ text[Len(text)] \in SpaceChars
    THEN trimEnd(SubSeq(text, 1, Len(text) - 1))
    ELSE text

trim(text) == trimEnd(trimStart(text))

\* String.prototype.includes
includes(text, part) ==
  \E i \in 1..(Len(text) - Len(part) + 1) : SubSeq(text, i, i + Len(part) - 1) = part

\* parseInt of a string that starts with decimal digits (every string the
\* parser hands to parseInt is a capture of \d+)
RECURSIVE parseIntFrom(_, _, _)
parseIntFrom(text, i, acc) ==
  IF i > Len(text) \/ text[i] \notin DigitChars
    THEN acc
    ELSE parseIntFrom(text, i + 1, acc * 10 + (IndexOfChar(Digits, text[i]) - 1))

parseInt(text) == parseIntFrom(text, 1, 0)

(***************************************************************************)
(* Regular expressions.  A pattern is a tree of nodes                      *)
(*   chr c         the character c                                         *)
(*   lit s         the characters of s, one after the other                *)
(*   cls k         a character class: "s" \s, "d" \d, "w" \w, "." any      *)
(*   seq xs        concatenation                                           *)
(*   alt xs        alternation, tried left to right                        *)
(*   rep x lo hi   greedy repetition, hi = Unbounded for * and +           *)
(*   grp n x       capture group number n                                  *)
(*   nla x         negative lookahead (?!x)                                *)
(* and RegExpExec is the backtracking matcher of String.prototype.match    *)
(* for a pattern without the g flag: the leftmost match, alternatives and  *)
(* repetitions tried in priority order, with the captures of that match.   *)
(***************************************************************************)
Unbounded == -1

Chr(c) == [t |-> "chr", c |-> c]

Cls(k) == [t |-> "cls", k |-> k]

Concat(xs) == [t |-> "seq", xs |-> xs]

Alt(xs) == [t |-> "alt", xs |-> xs]

Rep(x, lo, hi) == [t |-> "rep", x |-> x, lo |-> lo, hi |-> hi]

Grp(n, x) == [t |-> "grp", n |-> n, x |-> x]

Nla(x) == [t |-> "nla", x |-> x]

\* a literal word, \s+, \s*, x?, x+, x*, \d{n}
Lit(s) == [t |-> "lit", s |-> Chars(s)]

Opt(x) == Rep(x, 0, 1)

Plus(x) == Rep(x, 1, Unbounded)

Star(x) == Rep(x, 0, Unbounded)

Sp == Plus(Cls("s"))

Sp0 == Star(Cls("s"))

Word(n) == Grp(n, Plus(Cls("w")))

Number(n) == Grp(n, Plus(Cls("d")))

IsoDate(n) ==
  Grp(n, Concat(<<Rep(Cls("d"), 4, 4), Chr("-"), Rep(Cls("d"), 2, 2), Chr("-"),
                  Rep(Cls("d"), 2, 2)>>))

InClass(k, c) ==
  CASE k = "s" -> c \in SpaceChars
    [] k = "d" -> c \in DigitChars
    [] k = "w" -> c \in WordChars
    [] OTHER -> c # "\n"

NoMatch == [ok |-> FALSE, end |-> 0, caps |-> <<>>]

\* the number of characters of class k that follow one another from pos
RECURSIVE RunEnd(_, _, _)
RunEnd(text, k, pos) ==
  IF pos > Len(text) \/ ~InClass(k, text[pos]) THEN pos ELSE RunEnd(text, k, pos + 1)

RunLength(text, k, pos) == RunEnd(text, k, pos) - pos

\* MatchFrom(text, todo, pos, caps): match the nodes of todo one after the
\* other from position pos; caps[n] is <<>> or <<first, last + 1>>.  A
\* repetition of a character class takes the longest run for which the
\* rest matches, which is what greedy backtracking finds first
RECURSIVE MatchFrom(_, _, _, _)
RECURSIVE MatchAlt(_, _, _, _, _, _)
MatchAlt(text, xs, i, rest, pos, caps) ==
  IF i > Len(xs)
    THEN NoMatch
    ELSE LET r == MatchFrom(text, <<xs[i]>> \o rest, pos, caps)
         IN  IF r.ok THEN r ELSE MatchAlt(text, xs, i + 1, rest, pos, caps)

MatchClassRun(text, x, rest, pos, caps) ==
  LET run == RunLength(text, x.x.k, pos)
      most == IF x.hi = Unbounded THEN run ELSE Min(run, x.hi)
      fits == { n \in x.lo..most : MatchFrom(text, rest, pos + n, caps).ok }
  IN  IF fits = {} THEN NoMatch ELSE MatchFrom(text, rest, pos + SetMax(fits), caps)

MatchFrom(text, todo, pos, caps) ==
  IF todo = <<>>
    THEN [ok |-> TRUE, end |-> pos, caps |-> caps]
    ELSE
      LET x == Head(todo)
          rest == Tail(todo)
      IN  CASE x.t = "chr" ->
                 IF pos <= Len(text) /\ text[pos] = x.c
                   THEN MatchFrom(text, rest, pos + 1, caps)
                   ELSE NoMatch
            [] x.t = "lit" ->
                 IF pos + Len(x.s) - 1 <= Len(text)
                      /\ SubSeq(text, pos, pos + Len(x.s) - 1) = x.s
                   THEN MatchFrom(text, rest, pos + Len(x.s), caps)
                   ELSE NoMatch
            [] x.t = "cls" ->
                 IF pos <= Len(text) /\ InClass(x.k, text[pos])
                   THEN MatchFrom(text, rest, pos + 1, caps)
                   ELSE NoMatch
            [] x.t = "seq" -> MatchFrom(text, x.xs \o rest, pos, caps)
            [] x.t = "alt" -> MatchAlt(text, x.xs, 1, rest, pos, caps)
            [] x.t = "rep" /\ x.x.t = "cls" -> MatchClassRun(text, x, rest, pos, caps)
            [] x.t = "rep" /\ x.x.t # "cls" ->
                 IF x.lo > 0
                   THEN MatchFrom(text,
                          <<x.x, Rep(x.x, x.lo - 1,
                                     IF x.hi = Unbounded THEN Unbounded ELSE x.hi - 1)>>
                            \o rest, pos, caps)
                 ELSE IF x.hi = 0
                   THEN MatchFrom(text, rest, pos, caps)
                 ELSE
                   LET more == MatchFrom(text,
                                 <<x.x, Rep(x.x, 0,
                                            IF x.hi = Unbounded THEN Unbounded ELSE x.hi - 1)>>
                                   \o rest, pos, caps)
                   IN  IF more.ok THEN more ELSE MatchFrom(text, rest, pos, caps)
            [] x.t = "grp" ->
                 MatchFrom(text, <<x.x, [t |-> "end", n |-> x.n, from |-> pos]>> \o rest,
                           pos, caps)
            [] x.t = "end" ->
                 MatchFrom(text, rest, pos, [caps EXCEPT ![x.n] = <<x.from, pos>>])
            [] x.t = "nla" ->
                 IF MatchFrom(text, <<x.x>>, pos, caps).ok
                   THEN NoMatch
                   ELSE MatchFrom(text, rest, pos, caps)

RECURSIVE RegExpSearch(_, _, _)
RegExpSearch(text, pattern, start) ==
  IF start > Len(text) + 1
    THEN NoMatch
    ELSE LET r == MatchFrom(text, <<pattern>>, start, <<<<>>, <<>>, <<>>>>)
         IN  IF r.ok THEN r ELSE RegExpSearch(text, pattern, start + 1)

\* the literal parts that every match of the pattern contains: a text
\* without one of them has no match, wherever the search starts
RequiredParts(pattern) ==
  IF pattern.t # "seq"
    THEN {}
    ELSE { pattern.xs[i].s : i \in { j \in 1..Len(pattern.xs) : pattern.xs[j].t = "lit" } }
           \cup { <<pattern.xs[i].c>> :
                    i \in { j \in 1..Len(pattern.xs) : pattern.xs[j].t = "chr" } }

\* text.match(pattern): NoMatch for null, else the captures
RegExpExec(text, pattern) ==
  IF \A part \in RequiredParts(pattern) : includes(text, part)
    THEN RegExpSearch(text, pattern, 1)
    ELSE NoMatch

\* match[n]: the captured substring, <<>> when the group did not take part
\* (undefined) or captured nothing (both are falsy)
Group(text, m, n) ==
  IF m.caps[n] = <<>> THEN <<>> ELSE SubSeq(text, m.caps[n][1], m.caps[n][2] - 1)

(***************************************************************************)
(* ScheduleEditor.initPatterns: the rule table.  pattern is the regular    *)
(* expression, source its text (pattern.toString()), base_confidence is in *)
(* hundredths.  The i flag changes nothing: the text matched is lower case *)
(***************************************************************************)
Days == Concat(<<Lit("day"), Opt(Chr("s"))>>)

DaysOrD == Alt(<<Days, Chr("d")>>)

\* (?::\s*(.+))?
RiskNote == Opt(Concat(<<Chr(":"), Sp0, Grp(2, Plus(Cls(".")))>>))

NotDays == Nla(Concat(<<Sp0, Days>>))

CommandPattern(pattern, source, intent, base_confidence) ==
  [pattern |-> pattern, source |-> source, intent |-> intent,
   base_confidence |-> base_confidence]

initPatterns ==
  << CommandPattern(
       Concat(<<Lit("mark"), Sp, Word(1), Sp, Opt(Concat(<<Lit("as"), Sp>>)),
                Lit("complete")>>),
       "/mark\\s+(\\w+)\\s+(?:as\\s+)?complete/i", "mark_complete", 98),
     CommandPattern(
       Concat(<<Word(1), Sp, Lit("is"), Sp,
                Alt(<<Lit("done"), Lit("complete"), Lit("finished")>>)>>),
       "/(\\w+)\\s+is\\s+(?:done|complete|finished)/i", "mark_complete", 95),
     CommandPattern(
       Concat(<<Lit("complete"), Sp, Word(1)>>),
       "/complete\\s+(\\w+)/i", "mark_complete", 95),
     CommandPattern(
       Concat(<<Lit("extend"), Sp, Word(1), Sp, Lit("by"), Sp, Number(2), Sp0, DaysOrD>>),
       "/extend\\s+(\\w+)\\s+by\\s+(\\d+)\\s*(?:days?|d)/i", "extend_duration", 98),
     CommandPattern(
       Concat(<<Word(1), Sp, Lit("needs"), Sp, Number(2), Sp, Lit("more"), Sp, Days>>),
       "/(\\w+)\\s+needs\\s+(\\d+)\\s+more\\s+days?/i", "extend_duration", 90),
     CommandPattern(
       Concat(<<Lit("add"), Sp, Number(1), Sp, Days, Sp, Lit("to"), Sp, Word(2)>>),
       "/add\\s+(\\d+)\\s+days?\\s+to\\s+(\\w+)/i", "extend_duration", 95),
     CommandPattern(
       Concat(<<Lit("shorten"), Sp, Word(1), Sp, Lit("by"), Sp, Number(2), Sp0, DaysOrD>>),
       "/shorten\\s+(\\w+)\\s+by\\s+(\\d+)\\s*(?:days?|d)/i", "shorten_duration", 98),
     CommandPattern(
       Concat(<<Lit("reduce"), Sp, Word(1), Sp, Lit("by"), Sp, Number(2), Sp0, DaysOrD>>),
       "/reduce\\s+(\\w+)\\s+by\\s+(\\d+)\\s*(?:days?|d)/i", "shorten_duration", 98),
     CommandPattern(
       Concat(<<Lit("set"), Sp, Word(1), Sp,
                Opt(Alt(<<Concat(<<Lit("to"), Sp>>), Concat(<<Lit("duration"), Sp>>)>>)),
                Number(2), Sp, DaysOrD>>),
       "/set\\s+(\\w+)\\s+(?:to\\s+|duration\\s+)?(\\d+)\\s+(?:days?|d)/i",
       "set_duration", 96),
     CommandPattern(
       Concat(<<Word(1), Sp, Lit("duration"), Sp, Opt(Concat(<<Lit("is"), Sp>>)),
                Number(2), Sp0, Opt(DaysOrD)>>),
       "/(\\w+)\\s+duration\\s+(?:is\\s+)?(\\d+)\\s*(?:days?|d)?/i", "set_duration", 95),
     CommandPattern(
       Concat(<<Opt(Concat(<<Lit("set"), Sp>>)), Word(1), Sp,
                Opt(Alt(<<Concat(<<Lit("is"), Sp>>), Concat(<<Lit("to"), Sp>>)>>)),
                Number(2), Chr("%")>>),
       "/(?:set\\s+)?(\\w+)\\s+(?:is\\s+|to\\s+)?(\\d+)%/i", "set_progress", 95),
     CommandPattern(
       Concat(<<Word(1), Sp, Lit("progress"), Sp, Opt(Concat(<<Lit("is"), Sp>>)),
                Number(2), Opt(Chr("%"))>>),
       "/(\\w+)\\s+progress\\s+(?:is\\s+)?(\\d+)%?/i", "set_progress", 95),
     CommandPattern(
       Concat(<<Lit("set"), Sp, Word(1), Sp, Lit("to"), Sp, Number(2), NotDays>>),
       "/set\\s+(\\w+)\\s+to\\s+(\\d+)(?!\\s*days?)/i", "set_progress", 85),
     CommandPattern(
       Concat(<<Word(1), Sp, Lit("is"), Sp, Number(2), NotDays>>),
       "/(\\w+)\\s+is\\s+(\\d+)(?!\\s*days?)/i", "set_progress", 80),
     CommandPattern(
       Concat(<<Word(1), Sp, Lit("started"), Sp, IsoDate(2)>>),
       "/(\\w+)\\s+started\\s+(\\d{4}-\\d{2}-\\d{2})/i", "set_actual_start", 98),
     CommandPattern(
       Concat(<<Word(1), Sp, Lit("finished"), Sp, IsoDate(2)>>),
       "/(\\w+)\\s+finished\\s+(\\d{4}-\\d{2}-\\d{2})/i", "set_actual_finish", 98),
     CommandPattern(
       Concat(<<Word(1), Sp, Lit("starts"), Sp, Number(2), Sp, Days, Sp, Lit("after"),
                Sp, Word(3)>>),
       "/(\\w+)\\s+starts\\s+(\\d+)\\s+days?\\s+after\\s+(\\w+)/i", "add_lag", 95),
     CommandPattern(
       Concat(<<Word(1), Sp, Lit("depends"), Sp, Lit("on"), Sp, Word(2)>>),
       "/(\\w+)\\s+depends\\s+on\\s+(\\w+)/i", "add_dependency", 95),
     CommandPattern(
       Concat(<<Lit("move"), Sp, Word(1), Sp, Lit("after"), Sp, Word(2)>>),
       "/move\\s+(\\w+)\\s+after\\s+(\\w+)/i", "add_dependency", 95),
     CommandPattern(
       Concat(<<Word(1), Sp, Lit("no"), Sp, Lit("earlier"), Sp, Lit("than"), Sp,
                IsoDate(2)>>),
       "/(\\w+)\\s+no\\s+earlier\\s+than\\s+(\\d{4}-\\d{2}-\\d{2})/i", "add_constraint", 98),
     CommandPattern(
       Concat(<<Lit("risk"), Sp, Lit("for"), Sp, Word(1), RiskNote>>),
       "/risk\\s+for\\s+(\\w+)(?::\\s*(.+))?/i", "add_risk", 90),
     CommandPattern(
       Concat(<<Word(1), Sp, Opt(Concat(<<Lit("is"), Sp>>)), Lit("at"), Sp, Lit("risk"),
                RiskNote>>),
       "/(\\w+)\\s+(?:is\\s+)?at\\s+risk(?::\\s*(.+))?/i", "add_risk", 90),
     CommandPattern(
       Concat(<<Lit("flag"), Sp, Word(1), Opt(Concat(<<Sp, Lit("as"), Sp>>)), Lit("at"),
                Sp, Lit("risk"), RiskNote>>),
       "/flag\\s+(\\w+)(?:\\s+as\\s+)?at\\s+risk(?::\\s*(.+))?/i", "add_risk", 90),
     CommandPattern(
       Concat(<<Lit("what"), Sp, Lit("if"), Sp, Word(1), Sp, Lit("slip"), Opt(Chr("s")),
                Sp, Opt(Concat(<<Lit("by"), Sp>>)), Number(2), Sp0,
                Alt(<<Days, Chr("d"), Concat(<<Lit("week"), Opt(Chr("s"))>>)>>)>>),
       "/what\\s+if\\s+(\\w+)\\s+slips?\\s+(?:by\\s+)?(\\d+)\\s*(?:days?|d|weeks?)/i",
       "what_if", 100),
     CommandPattern(
       Concat(<<Opt(Concat(<<Lit("show"), Sp>>)),
                Alt(<<Concat(<<Lit("critical"), Sp, Lit("path")>>),
                      Concat(<<Lit("what"), Star(Cls(".")), Lit("driving"),
                               Star(Cls(".")), Lit("end")>>)>>)>>),
       "/(?:show\\s+)?(?:critical\\s+path|what.*driving.*end)/i",
       "show_critical_path", 100),
     CommandPattern(
       Concat(<<Opt(Concat(<<Lit("show"), Sp>>)), Lit("milestone"), Opt(Chr("s"))>>),
       "/(?:show\\s+)?milestones?/i", "show_milestones", 100),
     CommandPattern(
       Concat(<<Opt(Concat(<<Lit("show"), Sp>>)), Lit("variance")>>),
       "/(?:show\\s+)?variance/i", "show_variance", 100),
     CommandPattern(
       Alt(<<Lit("status"), Lit("summary"),
             Concat(<<Lit("how"), Sp, Lit("are"), Sp, Lit("we")>>)>>),
       "/status|summary|how\\s+are\\s+we/i", "show_status", 100) >>

(***************************************************************************)
(* ScheduleEditor: entity lookup.  data is the document yaml.load gave the *)
(* constructor, NoData when the text was empty.  An entry is addressed by  *)
(* its path <<p>>, <<p, w>> or <<p, w, k>>.                                *)
(***************************************************************************)
\* the entries in the order the nested for loops visit them
EntryPaths(data) ==
  Flatten([p \in 1..Len(data.phases) |->
    <<<<p>>>> \o Flatten([w \in 1..Len(data.phases[p].workstreams) |->
      <<<<p, w>>>> \o [k \in 1..Len(data.phases[p].workstreams[w].tasks) |-> <<p, w, k>>]])])

EntryAt(data, path) ==
  CASE Len(path) = 1 -> data.phases[path[1]]
    [] Len(path) = 2 -> data.phases[path[1]].workstreams[path[2]]
    [] OTHER -> data.phases[path[1]].workstreams[path[2]].tasks[path[3]]

\* mutant: an id that is not found gives the first phase
findTaskDataInYAMLOrFirst(data, taskId) ==
  LET paths == EntryPaths(data)
      hits == { i \in 1..Len(paths) : EntryAt(data, paths[i]).id = taskId }
  IN  IF hits = {} THEN paths[1] ELSE paths[SetMin(hits)]

\* path of the first entry whose id is taskId, <<>> for null
findTaskDataInYAML(data, taskId) ==
  LET paths == EntryPaths(data)
      hits == { i \in 1..Len(paths) : EntryAt(data, paths[i]).id = taskId }
  IN  IF hits = {} THEN <<>> ELSE paths[SetMin(hits)]

findTaskInYAML(data, taskId) ==
  LET paths == EntryPaths(data)
  IN  \E i \in 1..Len(paths) : EntryAt(data, paths[i]).id = taskId

\* Fuse.js is not part of the repository: fuse gives, for the queries it
\* knows, the best result of fuse.search as [item, score] (item an index
\* into the collected tasks, score in hundredths, lower is better)
fuzzyFindTask(data, fuse, query) ==
  LET paths == EntryPaths(data)
      tasks == [i \in 1..Len(paths) |->
                  [id |-> EntryAt(data, paths[i]).id, name |-> EntryAt(data, paths[i]).name]]
  IN  IF query \notin DOMAIN fuse \/ fuse[query] = <<>> \/ fuse[query][1].item > Len(tasks)
        THEN <<>>
        ELSE LET match == fuse[query][1]
                 confidence == 100 - match.score
             IN  IF confidence >= 70
                   THEN << [id |-> tasks[match.item].id, name |-> tasks[match.item].name,
                            score |-> confidence] >>
                   ELSE <<>>

(***************************************************************************)
(* Confidence.  A confidence is a double; it is held as its value in units *)
(* of 10^-7, so that the sums and products the parser forms are the        *)
(* doubles JavaScript computes: 0.90 + 0.05 is 0.9500000000000001 and      *)
(* 0.80 + 0.05 is 0.8500000000000001, 0.85 + 0.05 is 0.9.                  *)
(***************************************************************************)
ConfidenceOne == 10000000

Confidence(hundredths) == hundredths * 100000

\* confidence + 0.05 for a base confidence
plusBoost(base) ==
  Confidence(base + 5) + (IF base \in {90, 80} THEN 1 ELSE 0)

\* confidence * score for a base confidence and a fuzzy score
timesScore(base, score) ==
  base * score * 1000
    + (CASE <<base, score>> \in {<<98, 70>>, <<95, 70>>, <<96, 70>>, <<80, 70>>} -> -1
         [] <<base, score>> \in {<<90, 80>>, <<80, 80>>} -> 1
         [] OTHER -> 0)

(***************************************************************************)
(* ScheduleEditor.parseCommand                                             *)
(***************************************************************************)
Undefined == [kind |-> "undefined", n |-> 0, s |-> <<>>]

NumberValue(n) == [kind |-> "number", n |-> n, s |-> <<>>]

StringValue(s) == [kind |-> "string", n |-> 0, s |-> s]

\* x || y for strings
OrElse(x, y) == IF x # <<>> THEN x ELSE y

startsWith(s, prefix) == Len(s) >= Len(prefix) /\ SubSeq(s, 1, Len(prefix)) = prefix

taskIdGroupIndex(rule) ==
  IF rule.intent = "extend_duration" /\ includes(rule.source, "add")
       /\ includes(rule.source, "to")
    THEN 2
    ELSE 1

\* lines 246-262: [task_id, task_name, confidence] of a match, or TypeError
resolveEntity(data, fuse, rule, candidate) ==
  LET base == rule.base_confidence
  IN  IF candidate = <<>>
        THEN [task_id |-> <<>>, task_name |-> <<>>, confidence |-> Confidence(base)]
      ELSE IF data = NoData
        THEN TypeError
      ELSE IF findTaskInYAML(data, toUpperCase(candidate))
        THEN [task_id |-> toUpperCase(candidate), task_name |-> <<>>,
              confidence |-> Min(ConfidenceOne, plusBoost(base))]
      ELSE LET fuzzyResult == fuzzyFindTask(data, fuse, toUpperCase(candidate))
           IN  IF fuzzyResult # <<>>
                 THEN [task_id |-> fuzzyResult[1].id, task_name |-> <<fuzzyResult[1].name>>,
                       confidence |-> Min(ConfidenceOne, timesScore(base, fuzzyResult[1].score))]
                 ELSE [task_id |-> <<>>, task_name |-> <<>>, confidence |-> Confidence(base)]

\* lines 273-300: the value, value2 and task_id the intent extracts
extractValues(command, cleaned, rule, m, cmd) ==
  LET intent == rule.intent
      g(n) == Group(cleaned, m, n)
  IN  CASE intent = "set_progress" ->
             [cmd EXCEPT !.value = NumberValue(parseInt(g(2)))]
        [] intent \in {"extend_duration", "shorten_duration", "set_duration"} ->
             [cmd EXCEPT !.value =
                IF intent = "extend_duration" /\ includes(rule.source, "add")
                  THEN NumberValue(parseInt(g(1)))
                  ELSE NumberValue(parseInt(OrElse(g(2), g(1))))]
        [] intent = "add_risk" ->
             [cmd EXCEPT !.value = StringValue(OrElse(g(2), Chars("At risk")))]
        [] intent \in {"set_actual_start", "set_actual_finish", "add_constraint"} ->
             [cmd EXCEPT !.value = StringValue(g(2))]
        [] intent = "add_lag" ->
             [cmd EXCEPT !.task_id = toUpperCase(g(1)),
                         !.value = NumberValue(parseInt(g(2))),
                         !.value2 = StringValue(toUpperCase(g(3)))]
        [] intent = "add_dependency" ->
             [cmd EXCEPT !.value = StringValue(toUpperCase(g(2)))]
        [] intent = "what_if" ->
             [cmd EXCEPT !.value =
                IF includes(command, Chars("week"))
                  THEN NumberValue(parseInt(g(2)) * 5)
                  ELSE NumberValue(parseInt(g(2)))]
        [] OTHER -> cmd

\* mutant: only the show_ intents are queries
isQueryShowOnly(intent) == startsWith(intent, "show_")

\* line 270
isQuery(intent) == startsWith(intent, "show_") \/ intent = "what_if"

\* the command built from a rule that matched with m, or TypeError
ruleCommand(data, fuse, command, cleaned, rule, m) ==
  LET entity == resolveEntity(data, fuse, rule,
                              Group(cleaned, m, taskIdGroupIndex(rule)))
  IN  IF entity = TypeError
        THEN TypeError
        ELSE extractValues(command, cleaned, rule, m,
               [intent |-> rule.intent,
                task_id |-> entity.task_id,
                task_name |-> entity.task_name,
                value |-> Undefined,
                value2 |-> Undefined,
                confidence |-> entity.confidence,
                matched_pattern |-> rule.source,
                is_query |-> isQuery(rule.intent)])

UnknownCommand ==
  [intent |-> "unknown", task_id |-> <<>>, task_name |-> <<>>, value |-> Undefined,
   value2 |-> Undefined, confidence |-> 0, matched_pattern |-> "", is_query |-> FALSE]

\* mutant: a later rule of equal confidence replaces the best match
replacesBestOrTies(confidence, bestConfidence) == confidence >= bestConfidence

\* line 302
replacesBest(confidence, bestConfidence) == confidence > bestConfidence

\* the for loop of lines 231-307; bestMatch is <<>> for null
RECURSIVE parseLoop(_, _, _, _, _, _, _, _)
parseLoop(data, fuse, command, cleaned, patterns, i, bestMatch, bestConfidence) ==
  IF i > Len(patterns)
    THEN IF bestMatch # <<>> THEN bestMatch[1] ELSE UnknownCommand
    ELSE
      LET m == RegExpExec(cleaned, patterns[i].pattern)
      IN  IF ~m.ok
            THEN parseLoop(data, fuse, command, cleaned, patterns, i + 1,
                           bestMatch, bestConfidence)
            ELSE
              LET cmd == ruleCommand(data, fuse, command, cleaned, patterns[i], m)
              IN  IF cmd = TypeError
                    THEN TypeError
                  ELSE IF replacesBest(cmd.confidence, bestConfidence)
                    THEN parseLoop(data, fuse, command, cleaned, patterns, i + 1,
                                   <<cmd>>, cmd.confidence)
                    ELSE parseLoop(data, fuse, command, cleaned, patterns, i + 1,
                                   bestMatch, bestConfidence)

parseCommand(data, fuse, command) ==
  parseLoop(data, fuse, command, toLowerCase(trim(command)), initPatterns, 1, <<>>, 0)

(***************************************************************************)
(* ScheduleEditor.generateDiff and applyDiff.  The values of a Diff are    *)
(* held as the raw fields hold them: <<v>>, and <<>> for null or absent;   *)
(* the empty string '' is << <<>> >> and the empty array [] is << <<>> >>. *)
(* The description of a Diff is text for the reader and is left out.       *)
(***************************************************************************)
\* mutant: every field reads as absent
FieldAbsent(task, field) == <<>>

\* task[field], <<>> when the entry has no such field
Field(task, field) == IF field \in DOMAIN task THEN task[field] ELSE <<>>

\* the number of days of the months of 2025 before month m
DaysBeforeMonth(m) ==
  <<0, 31, 59, 90, 120, 151, 181, 212, 243, 273, 304, 334>>[m]

\* the day number of a yyyy-MM-dd string of the year 2025; the project
\* start default 2025-01-15 is day DEFAULT_START_DAY
dayOfDateString(s) ==
  DEFAULT_START_DAY - 15
    + DaysBeforeMonth(parseInt(SubSeq(s, 6, 7))) + parseInt(SubSeq(s, 9, 10))

\* a date string as a raw field holds it
DateString(s) == [kind |-> "string", day |-> dayOfDateString(s)]

Diff(task_id, field, old_value, new_value) ==
  [task_id |-> task_id, field |-> field, old_value |-> old_value,
   new_value |-> new_value]

\* the switch of lines 391-521
diffsOfIntent(command, task) ==
  LET intent == command.intent
      id == command.task_id
      progress == <<OrZero(Field(task, "progress"))>>
      status == IF Field(task, "status") = <<>> THEN <<"not_started">> ELSE task.status
      duration == OrZero(Field(task, "duration"))
      depends_on == IF Field(task, "depends_on") = <<>> THEN <<>> ELSE task.depends_on[1]
  IN  CASE intent = "set_progress" ->
             <<Diff(id, "progress", progress, <<command.value.n>>)>>
        [] intent = "mark_complete" ->
             <<Diff(id, "progress", progress, <<100>>),
               Diff(id, "status", status, <<"complete">>)>>
        [] intent = "extend_duration" ->
             <<Diff(id, "duration", <<duration>>, <<duration + command.value.n>>)>>
        [] intent = "shorten_duration" ->
             <<Diff(id, "duration", <<duration>>, <<Max(0, duration - command.value.n)>>)>>
        [] intent = "set_duration" ->
             <<Diff(id, "duration", <<duration>>, <<command.value.n>>)>>
        [] intent = "add_risk" ->
             <<Diff(id, "status_note",
                    IF Field(task, "status_note") = <<>> THEN << <<>> >> ELSE task.status_note,
                    <<command.value.s>>),
               Diff(id, "status", status, <<"at_risk">>)>>
        [] intent = "set_actual_start" ->
             <<Diff(id, "actual_start", Field(task, "actual_start"),
                    <<DateString(command.value.s)>>)>>
        [] intent = "set_actual_finish" ->
             <<Diff(id, "actual_finish", Field(task, "actual_finish"),
                    <<DateString(command.value.s)>>)>>
        [] intent = "add_lag" ->
             <<Diff(id, "depends_on", <<depends_on>>,
                    <<Append(depends_on, DepObject(command.value2.s, command.value.n))>>)>>
        [] intent = "add_dependency" ->
             <<Diff(id, "depends_on", <<depends_on>>,
                    <<Append(depends_on, DepString(command.value.s))>>)>>
        [] intent = "add_constraint" ->
             <<Diff(id, "constraint", Field(task, "constraint"),
                    <<DateString(command.value.s)>>)>>
        [] OTHER -> <<>>

generateDiff(data, command) ==
  IF command.is_query \/ command.task_id = <<>>
    THEN <<>>
    ELSE LET path == findTaskDataInYAML(data, command.task_id)
         IN  IF path = <<>> THEN <<>> ELSE diffsOfIntent(command, EntryAt(data, path))

\* task[field] = value
SetField(task, field, value) ==
  [f \in DOMAIN task \cup {field} |-> IF f = field THEN value ELSE task[f]]

\* the document in which the entry at path has its field set
SetEntryField(data, path, field, value) ==
  CASE Len(path) = 1 ->
         [data EXCEPT !.phases[path[1]] = SetField(@, field, value)]
    [] Len(path) = 2 ->
         [data EXCEPT !.phases[path[1]].workstreams[path[2]] = SetField(@, field, value)]
    [] OTHER ->
         [data EXCEPT !.phases[path[1]].workstreams[path[2]].tasks[path[3]] =
            SetField(@, field, value)]

\* mutant: the diff is looked up but not written
applyOneDiffSkipped(data, diff) == data

\* lines 541-546 for one diff
applyOneDiff(data, diff) ==
  LET path == findTaskDataInYAML(data, diff.task_id)
  IN  IF path = <<>> THEN data ELSE SetEntryField(data, path, diff.field, diff.new_value)

\* mutant: only the first diff of the list is applied
applyDiffsFirstOnly(data, diffs, i) ==
  IF i > Len(diffs) THEN data ELSE applyOneDiff(data, diffs[i])

RECURSIVE applyDiffs(_, _, _)
applyDiffs(data, diffs, i) ==
  IF i > Len(diffs) THEN data ELSE applyDiffs(applyOneDiff(data, diffs[i]), diffs, i + 1)

\* mutant: the diffs are applied to a copy, the editor keeps its data
applyDiffOnCopy(data, diffs) ==
  [data |-> data, text |-> yamlDump(applyDiffs(data, diffs, 1))]

\* applyDiff: the data the editor holds afterwards and the text returned
applyDiff(data, diffs) ==
  LET applied == applyDiffs(data, diffs, 1)
  IN  [data |-> applied, text |-> yamlDump(applied)]

getYAML(data) == yamlDump(data)

(***************************************************************************)
(* State                                                                   *)
(***************************************************************************)
VARIABLES
  calendar,     \* the Calendar whose methods are called
  startDate,    \* argument of addWorkingDays / workingDaysBetween
  days,         \* argument of addWorkingDays
  added,        \* value returned by addWorkingDays, NoDate before the call
  between,      \* <<value returned by workingDaysBetween>>, <<>> before the call
  yamlContent,  \* the specification text held by the caller
  now,          \* the instant returned by new Date() during a load
  schedule,     \* outcome of new HierarchicalSchedule(yamlContent)
  fuse,         \* what fuse.search gives for the queries it resolves
  editor,       \* this.data of the ScheduleEditor
  command,      \* the command text
  parsed,       \* outcome of parseCommand, NoCommand before the call
  diffs,        \* <<value returned by generateDiff>>, <<>> before the call
  updatedYAML,  \* the texts returned by the applyDiff calls made, in call order
  files,        \* the regular files of the server's file system, as paths
  file,         \* the file query parameter of the GET /api/schedule request
  filePath,     \* the path GET passes to readFile, NoPath before the call
  response      \* the response of GET, NoResponse before the call

calendarVars == <<calendar, startDate, days, added, between>>

editorVars == <<fuse, editor, command, parsed, diffs, updatedYAML>>

routeVars == <<files, file, filePath, response>>

vars == <<calendar, startDate, days, added, between, yamlContent, now, schedule,
          fuse, editor, command, parsed, diffs, updatedYAML, files, file, filePath,
          response>>

NoCommand == [parsed |-> FALSE]

NoFuse == [q \in {} |-> <<>>]

\* no ScheduleEditor is in use
EditorIdle ==
  /\ fuse = NoFuse
  /\ editor = NoData
  /\ command = <<>>
  /\ parsed = NoCommand
  /\ diffs = <<>>
  /\ updatedYAML = <<>>

NoParameter == [given |-> FALSE]

NoPath == <<"?">>

NoResponse == [status |-> 0]

\* no request is being served
RouteIdle ==
  /\ files = {}
  /\ file = NoParameter
  /\ filePath = NoPath
  /\ response = NoResponse

\* no Calendar method is being called
CalendarIdle ==
  /\ calendar = NoSchedule.calendar
  /\ startDate = 0
  /\ days = 0
  /\ added = NoDate
  /\ between = <<>>

(***************************************************************************)
(* Specification texts                                                     *)
(***************************************************************************)
Id(name) == Chars(name)

TextDate(day) == [style |-> "date", day |-> day]

TextTask(id) ==
  [id |-> id, name |-> "task", duration |-> <<>>, progress |-> <<>>,
   status |-> <<>>, status_note |-> <<>>, milestone |-> <<>>,
   depends_on |-> <<>>, actual_start |-> <<>>, actual_finish |-> <<>>,
   constraint |-> <<>>, start |-> <<>>]

TextCalendar(working_days, holidayDays, unit) ==
  [working_days |-> <<working_days>>,
   holidays |-> holidayDays,
   duration_unit |-> <<unit>>]

\* one phase with one workstream holding the given tasks
TextDocument(startDay, cal, phaseId, wsId, tasks) ==
  [project |-> [start_date |-> <<TextDate(startDay)>>],
   calendar |-> cal,
   phases |-> << [id |-> phaseId, name |-> "phase",
                  workstreams |-> << [id |-> wsId, name |-> "workstream",
                                      tasks |-> tasks] >>] >>]

MonToFri == {"Mon", "Tue", "Wed", "Thu", "Fri"}

StandardCalendar == TextCalendar(MonToFri, <<>>, WORKING_DAYS)

EmptyDocument == TextDocument(DEFAULT_START_DAY, StandardCalendar, Id("P"), Id("W"), <<>>)

DefaultNow == DEFAULT_START_DAY * TicksPerDay + 1

(***************************************************************************)
(* Specification SpecCalendar: calls of the Calendar methods               *)
(***************************************************************************)
FirstStartDay == 15

WorkingDaySets == {MonToFri, {"Mon", "Tue", "Wed", "Thu"},
                   {"Mon", "Tue", "Wed", "Thu", "Fri", "Sat"}, {"Wed"}}

HolidaySets == {{}, {19 * TicksPerDay}, {17 * TicksPerDay, 22 * TicksPerDay}}

Calendars ==
  [working_days : WorkingDaySets, holidays : HolidaySets,
   duration_unit : {WORKING_DAYS, CALENDAR_DAYS}]

StartDates ==
  { d * TicksPerDay + t : d \in FirstStartDay..MaxStartDay, t \in 0..(TicksPerDay - 1) }

InitCalendar ==
  /\ calendar \in Calendars
  /\ startDate \in StartDates
  /\ days \in (-MaxDays)..MaxDays
  /\ added = NoDate
  /\ between = <<>>
  /\ yamlContent = EmptyDocument
  /\ now = DefaultNow
  /\ schedule = NoSchedule
  /\ EditorIdle
  /\ RouteIdle

CallAddWorkingDays ==
  /\ added = NoDate
  /\ added' = addWorkingDays(calendar, startDate, days)
  /\ UNCHANGED <<calendar, startDate, days, between, yamlContent, now, routeVars, schedule, editorVars>>

\* workingDaysBetween(a, addWorkingDays(a, n))
CallWorkingDaysBetween ==
  /\ added # NoDate
  /\ between = <<>>
  /\ between' = <<workingDaysBetween(calendar, startDate, added)>>
  /\ UNCHANGED <<calendar, startDate, days, added, yamlContent, now, routeVars, schedule, editorVars>>

NextCalendar == CallAddWorkingDays \/ CallWorkingDaysBetween

SpecCalendar == InitCalendar /\ [][NextCalendar]_vars

(***************************************************************************)
(* Specification SpecLoad: construction of a HierarchicalSchedule          *)
(***************************************************************************)
TaskIds == <<Id("A"), Id("B"), Id("C"), Id("D"), Id("E")>>

UnknownId == Id("Z")

\* dependency graphs: every task of a k-task specification depends on
\* nothing, on one id (its own, another task's or an unknown one), or on
\* two distinct tasks
GraphDependsOn(k) ==
  {<<>>}
    \cup { << <<DepString(x)>> >> : x \in { TaskIds[i] : i \in 1..k } \cup {UnknownId} }
    \cup { << <<DepString(TaskIds[ij[1]]), DepString(TaskIds[ij[2]])>> >> :
             ij \in { xy \in (1..k) \X (1..k) : xy[1] < xy[2] } }

GraphDocument(k, deps) ==
  TextDocument(DEFAULT_START_DAY, StandardCalendar, Id("P"), Id("W"),
    [i \in 1..k |-> [TextTask(TaskIds[i]) EXCEPT
                       !.duration = <<1>>, !.depends_on = deps[i]]])

\* finish-to-start chains: the tasks appear in the order A, B, C and the
\* chain runs through them in the order given by a permutation
ChainOrders(k) == { f \in [1..k -> 1..k] : \A i \in 1..k : \E j \in 1..k : f[j] = i }

Position(f, i) == CHOOSE j \in DOMAIN f : f[j] = i

ChainCalendars ==
  {StandardCalendar,
   TextCalendar(MonToFri, <<TextDate(20), TextDate(22)>>, WORKING_DAYS),
   TextCalendar(MonToFri, <<>>, CALENDAR_DAYS)}

\* project starts on a Wednesday, a Friday and a Saturday
ChainStartDays == {FirstStartDay + 2, FirstStartDay + 4, FirstStartDay + 5}

ChainDocument(k, chain, durations, startDay, cal) ==
  TextDocument(startDay, cal, Id("P"), Id("W"),
    [i \in 1..k |-> [TextTask(TaskIds[i]) EXCEPT
       !.duration = <<durations[i]>>,
       !.depends_on =
          IF Position(chain, i) = 1
            THEN <<>>
            ELSE << <<DepString(TaskIds[chain[Position(chain, i) - 1]])>> >>]])

\* two tasks whose ids, progress, milestone flag, duration and dependency
\* are arbitrary: ids may be missing or repeat an id of another entry
EntryIds == {Id("A"), Id("B"), Id("W"), Id("P"), NoId}

FieldTasks ==
  { [TextTask(id) EXCEPT !.progress = progress, !.milestone = milestone,
                         !.duration = duration, !.depends_on = depends_on] :
      id \in EntryIds,
      progress \in {<<>>, <<150>>, <<-10>>},
      milestone \in {<<>>, <<TRUE>>},
      duration \in {<<>>, <<1>>},
      depends_on \in {<<>>, << <<DepString(UnknownId)>> >>} }

FieldDocument(t1, t2) ==
  TextDocument(DEFAULT_START_DAY, StandardCalendar, Id("P"), Id("W"), <<t1, t2>>)

InitLoad ==
  /\ \/ \E k \in 1..MaxTasks : \E deps \in [1..k -> GraphDependsOn(k)] :
          yamlContent = GraphDocument(k, deps)
     \/ \E k \in 1..MaxTasks : \E chain \in ChainOrders(k) :
          \E durations \in [1..k -> 1..MaxDuration] :
            \E startDay \in ChainStartDays, cal \in ChainCalendars :
              yamlContent = ChainDocument(k, chain, durations, startDay, cal)
     \/ \E t1 \in FieldTasks, t2 \in FieldTasks :
          yamlContent = FieldDocument(t1, t2)
  /\ now = DefaultNow
  /\ schedule = NoSchedule
  /\ CalendarIdle
  /\ RouteIdle
  /\ EditorIdle

\* new HierarchicalSchedule(yamlContent)
Construct ==
  /\ schedule.state = "none"
  /\ schedule' = load(yamlLoad(yamlContent), now)
  /\ UNCHANGED <<calendarVars, yamlContent, now, routeVars, editorVars>>

NextLoad == Construct

SpecLoad == InitLoad /\ [][NextLoad]_vars

(***************************************************************************)
(* Specification SpecParse: parseCommand on a constructed ScheduleEditor   *)
(***************************************************************************)
\* tasks A (half done), B and c; the id c is written in lower case
ParseDocumentABc ==
  TextDocument(DEFAULT_START_DAY, StandardCalendar, Id("P"), Id("W"),
    <<[TextTask(Id("A")) EXCEPT !.duration = <<5>>, !.progress = <<50>>],
      [TextTask(Id("B")) EXCEPT !.duration = <<3>>],
      TextTask(Id("c"))>>)

\* tasks A, ZZ and STATUS
ParseDocumentAZZ ==
  TextDocument(DEFAULT_START_DAY, StandardCalendar, Id("P"), Id("W"),
    <<TextTask(Id("A")), TextTask(Id("ZZ")), TextTask(Id("STATUS"))>>)

ParseDocuments == {EmptyText, ParseDocumentABc, ParseDocumentAZZ}

FuseResult(item, score) == <<[item |-> item, score |-> score]>>

\* fuse.search finds nothing; finds the third and fifth entries with score
\* 0; finds the fourth entry with score 0.3; finds the third entry with
\* scores 0.4 and 0.2
FuseOracles ==
  { [q \in {Chars("ZZ"), Chars("C")} |-> <<>>],
    [q \in {Chars("ZZ"), Chars("C")} |->
       IF q = Chars("ZZ") THEN FuseResult(3, 0) ELSE FuseResult(5, 0)],
    [q \in {Chars("ZZ"), Chars("C")} |->
       IF q = Chars("ZZ") THEN FuseResult(4, 30) ELSE <<>>],
    [q \in {Chars("ZZ"), Chars("C")} |->
       IF q = Chars("ZZ") THEN FuseResult(3, 40) ELSE FuseResult(3, 20)] }

ParseNames == {"a", "B", "zz", "c", "status"}

ParseNumbers == {"5", "75"}

NamedCommands(x) ==
  { "mark " \o x \o " complete", "mark " \o x \o " as complete", x \o " is done",
    x \o " is finished", "complete " \o x, x \o " at risk", x \o " is at risk: late",
    "flag " \o x \o " as at risk", "risk for " \o x, "risk for " \o x \o ": late",
    x \o " started 2025-01-20", x \o " finished 2025-01-22",
    x \o " no earlier than 2025-01-27", x \o " depends on a", "move " \o x \o " after B",
    "a depends on " \o x, "show " \o x, x }

ValuedCommands(x, n) ==
  { "extend " \o x \o " by " \o n \o " days", "extend " \o x \o " by " \o n \o "d",
    x \o " needs " \o n \o " more days", "add " \o n \o " days to " \o x,
    "shorten " \o x \o " by " \o n \o " days", "reduce " \o x \o " by " \o n \o " day",
    "set " \o x \o " to " \o n \o " days", "set " \o x \o " duration " \o n \o " d",
    x \o " duration is " \o n \o " days", x \o " duration " \o n,
    x \o " is " \o n \o "%", "set " \o x \o " to " \o n \o "%", x \o " " \o n \o "%",
    x \o " progress is " \o n \o "%", x \o " progress " \o n, "set " \o x \o " to " \o n,
    x \o " is " \o n, x \o " is " \o n \o " days",
    x \o " starts " \o n \o " days after a", "what if " \o x \o " slips by " \o n \o " days",
    "what if " \o x \o " slips " \o n \o " weeks",
    "What If " \o x \o " Slips " \o n \o " WEEKS" }

FixedCommands ==
  { "show critical path", "critical path", "what is driving the end", "show milestones",
    "milestone", "variance", "show variance", "summary", "how are we", "SHOW STATUS",
    "foo bar baz", "", "   ", "hello", "mark the milestone complete",
    "complete status summary", "  A is 75%  " }

ParseCommands ==
  { Chars(c) : c \in FixedCommands
                 \cup UNION { NamedCommands(x) : x \in ParseNames }
                 \cup UNION { ValuedCommands(x, n) : x \in ParseNames, n \in ParseNumbers } }

InitParse ==
  /\ yamlContent \in ParseDocuments
  /\ editor = yamlLoad(yamlContent)
  /\ fuse \in (IF yamlContent = EmptyText THEN {NoFuse} ELSE FuseOracles)
  /\ command \in ParseCommands
  /\ parsed = NoCommand
  /\ diffs = <<>>
  /\ updatedYAML = <<>>
  /\ now = DefaultNow
  /\ schedule = NoSchedule
  /\ CalendarIdle
  /\ RouteIdle

\* editor.parseCommand(command)
ParseCommand ==
  /\ parsed = NoCommand
  /\ editor # NoData \/ yamlContent = EmptyText
  /\ parsed' = parseCommand(editor, fuse, command)
  /\ UNCHANGED <<calendarVars, yamlContent, now, routeVars, schedule, fuse, editor, command, diffs,
                 updatedYAML>>

NextParse == ParseCommand

SpecParse == InitParse /\ [][NextParse]_vars

(***************************************************************************)
(* Specification SpecEdit: one command taken through parseCommand,         *)
(* generateDiff and applyDiff on a ScheduleEditor, and the returned text   *)
(* loaded again                                                            *)
(***************************************************************************)
MaxEdits == 2

\* P > W > A (5 days, half done, started), B (3 days, after A), c (a
\* milestone after B)
EditDocumentABc ==
  TextDocument(DEFAULT_START_DAY, StandardCalendar, Id("P"), Id("W"),
    <<[TextTask(Id("A")) EXCEPT !.duration = <<5>>, !.progress = <<50>>,
                                !.status = <<"in_progress">>,
                                !.actual_start = <<TextDate(DEFAULT_START_DAY)>>],
      [TextTask(Id("B")) EXCEPT !.duration = <<3>>,
                                !.depends_on = << <<DepString(Id("A"))>> >>],
      [TextTask(Id("c")) EXCEPT !.milestone = <<TRUE>>, !.duration = <<0>>,
                                !.depends_on = << <<DepObject(Id("B"), 1)>> >>]>>)

\* P > W > B (2 days, done), A (4 days, after B, progress 5)
EditDocumentBA ==
  TextDocument(DEFAULT_START_DAY + 5, StandardCalendar, Id("P"), Id("W"),
    <<[TextTask(Id("B")) EXCEPT !.duration = <<2>>, !.progress = <<100>>,
                                !.status = <<"complete">>],
      [TextTask(Id("A")) EXCEPT !.duration = <<4>>, !.progress = <<5>>,
                                !.depends_on = << <<DepString(Id("B"))>> >>]>>)

EditDocuments == {EditDocumentABc, EditDocumentBA}

\* fuse.search finds nothing for C; finds the fifth entry with score 0
EditOracles ==
  { [q \in {Chars("C")} |-> <<>>], [q \in {Chars("C")} |-> FuseResult(5, 0)] }

EditNames == {"a", "B", "c", "w"}

EditNumbers == {"0", "5", "75", "100", "150"}

ProgressCommands(x, n) ==
  { x \o " is " \o n \o "%", "set " \o x \o " to " \o n \o "%",
    x \o " progress " \o n, x \o " is " \o n }

OtherCommands(x) ==
  { "mark " \o x \o " complete", "extend " \o x \o " by 5 days",
    "shorten " \o x \o " by 75 days", "set " \o x \o " to 5 days",
    x \o " is at risk: late", x \o " started 2025-01-20",
    x \o " finished 2025-01-22", x \o " no earlier than 2025-01-27",
    x \o " depends on a", x \o " starts 5 days after a",
    "what if " \o x \o " slips 5 days" }

EditCommands ==
  { Chars(c) : c \in {"show status", "critical path", "foo bar baz"}
                 \cup UNION { OtherCommands(x) : x \in EditNames }
                 \cup UNION { ProgressCommands(x, n) : x \in EditNames, n \in EditNumbers } }

InitEdit ==
  /\ yamlContent \in EditDocuments
  /\ editor = yamlLoad(yamlContent)
  /\ fuse \in EditOracles
  /\ command \in EditCommands
  /\ parsed = NoCommand
  /\ diffs = <<>>
  /\ updatedYAML = <<>>
  /\ now = DefaultNow
  /\ schedule = NoSchedule
  /\ CalendarIdle
  /\ RouteIdle

\* diffs = editor.generateDiff(parsed)
GenerateDiff ==
  /\ parsed # NoCommand
  /\ parsed # TypeError
  /\ diffs = <<>>
  /\ diffs' = <<generateDiff(editor, parsed)>>
  /\ UNCHANGED <<calendarVars, yamlContent, now, routeVars, schedule, fuse, editor, command, parsed,
                 updatedYAML>>

\* editor.applyDiff(diffs)
ApplyDiff ==
  /\ diffs # <<>>
  /\ Len(updatedYAML) < MaxEdits
  /\ LET result == applyDiff(editor, diffs[1])
     IN  /\ editor' = result.data
         /\ updatedYAML' = Append(updatedYAML, result.text)
  /\ UNCHANGED <<calendarVars, yamlContent, now, routeVars, schedule, fuse, command, parsed, diffs>>

\* new HierarchicalSchedule(text) for the text applyDiff returned last
Reload ==
  /\ updatedYAML # <<>>
  /\ schedule' = load(yamlLoad(updatedYAML[Len(updatedYAML)]), now)
  /\ UNCHANGED <<calendarVars, yamlContent, now, routeVars, editorVars>>

NextEdit == ParseCommand \/ GenerateDiff \/ ApplyDiff \/ Reload

SpecEdit == InitEdit /\ [][NextEdit]_vars

(***************************************************************************)
(* Specification SpecApply: applyDiff called with a list of diffs that was *)
(* not generated from the editor's document                                *)
(***************************************************************************)
MaxDiffs == 2

\* diffs for the tasks A and B and the workstream W, which the documents
\* hold, and for the ids ZZ and C, which they do not hold
GivenDiffs ==
  { Diff(Id("A"), "progress", <<50>>, <<75>>),
    Diff(Id("A"), "progress", <<50>>, <<100>>),
    Diff(Id("B"), "status", <<"not_started">>, <<"at_risk">>),
    Diff(Id("W"), "status_note", << <<>> >>, <<Chars("late")>>),
    Diff(Id("ZZ"), "progress", <<0>>, <<100>>),
    Diff(Id("C"), "duration", <<0>>, <<4>>) }

InitApply ==
  /\ yamlContent \in EditDocuments
  /\ editor = yamlLoad(yamlContent)
  /\ fuse = NoFuse
  /\ command = <<>>
  /\ parsed = NoCommand
  /\ \E n \in 1..MaxDiffs : \E list \in [1..n -> GivenDiffs] : diffs = <<list>>
  /\ updatedYAML = <<>>
  /\ now = DefaultNow
  /\ schedule = NoSchedule
  /\ CalendarIdle
  /\ RouteIdle

NextApply == ApplyDiff \/ Reload

SpecApply == InitApply /\ [][NextApply]_vars

(***************************************************************************)
(* Specification SpecRollup: loading specifications with two phases and    *)
(* four workstreams, one of them empty                                     *)
(***************************************************************************)
\* P1 > W1 > A, B; P1 > W2 > C; P2 > W3 > D; P2 > W4 (no tasks)
RollupDocument(a, b, c, d) ==
  [project |-> [start_date |-> <<TextDate(DEFAULT_START_DAY)>>],
   calendar |-> StandardCalendar,
   phases |->
     << [id |-> Id("P1"), name |-> "phase",
         workstreams |-> << [id |-> Id("W1"), name |-> "workstream", tasks |-> <<a, b>>],
                            [id |-> Id("W2"), name |-> "workstream", tasks |-> <<c>>] >>],
        [id |-> Id("P2"), name |-> "phase",
         workstreams |-> << [id |-> Id("W3"), name |-> "workstream", tasks |-> <<d>>],
                            [id |-> Id("W4"), name |-> "workstream", tasks |-> <<>>] >>] >>]

RollupProgress == {0, 25, 100}

Statuses == {"not_started", "on_track", "at_risk", "delayed", "complete"}

ProgressTask(id, duration, progress) ==
  [TextTask(Id(id)) EXCEPT !.duration = <<duration>>, !.progress = <<progress>>]

StatusTask(id, status) ==
  [TextTask(Id(id)) EXCEPT !.duration = <<1>>, !.status = <<status>>]

\* a task of the given duration that follows the task pred when after holds
DatedTask(id, duration, after, pred) ==
  [TextTask(Id(id)) EXCEPT !.duration = <<duration>>,
     !.depends_on = IF after THEN << <<DepString(Id(pred))>> >> ELSE <<>>]

InitRollup ==
  /\ \/ \E da, db, dc \in 0..MaxDuration : \E pa, pb, pc \in RollupProgress :
          yamlContent = RollupDocument(ProgressTask("A", da, pa), ProgressTask("B", db, pb),
                                       ProgressTask("C", dc, pc), ProgressTask("D", 1, 25))
     \/ \E sa, sb, sc, sd \in Statuses :
          yamlContent = RollupDocument(StatusTask("A", sa), StatusTask("B", sb),
                                       StatusTask("C", sc), StatusTask("D", sd))
     \/ \E da, db, dc, dd \in 0..MaxDuration : \E ab, ac, cd \in BOOLEAN :
          yamlContent = RollupDocument(DatedTask("A", da, FALSE, "A"),
                                       DatedTask("B", db, ab, "A"),
                                       DatedTask("C", dc, ac, "A"),
                                       DatedTask("D", dd, cd, "C"))
  /\ now = DefaultNow
  /\ schedule = NoSchedule
  /\ CalendarIdle
  /\ RouteIdle
  /\ EditorIdle

SpecRollup == InitRollup /\ [][NextLoad]_vars

(***************************************************************************)
(* Specification SpecDates: loading specifications of three tasks, A in    *)
(* workstream W1 and B, C in workstream W2, with constraints, actual       *)
(* dates, explicit starts, progress and lags.  The project starts on       *)
(* Wednesday 2025-01-15 (day 17).                                          *)
(***************************************************************************)
Present(dayNumbers) == { <<>> } \cup { <<TextDate(d)>> : d \in dayNumbers }

\* Mon-Fri with Thursday 2025-01-16 a holiday, calendar days, and a
\* calendar section that gives an empty working_days list
DatesCalendars ==
  {TextCalendar(MonToFri, <<TextDate(18)>>, WORKING_DAYS),
   TextCalendar(MonToFri, <<>>, CALENDAR_DAYS),
   TextCalendar({}, <<>>, WORKING_DAYS)}

\* task A: no dependency; constraint before or after the project start,
\* actual dates, progress
DatesTasksA ==
  { [TextTask(Id("A")) EXCEPT !.duration = <<duration>>, !.constraint = constraint,
                             !.actual_start = actual_start,
                             !.actual_finish = actual_finish, !.progress = <<progress>>] :
      duration \in 0..MaxDuration,
      constraint \in Present({16, 24}),
      actual_start \in Present({16}),
      actual_finish \in Present({19}),
      progress \in {0, 50, 100} }

\* the lags of B's dependency on A
DatesLags == {-1, 0, 1}

\* task B: may depend on A with a lag or on the workstream of A, may have a
\* constraint, and an actual or an explicit start
DatesTasksB ==
  { [TextTask(Id("B")) EXCEPT !.duration = <<duration>>, !.depends_on = depends_on,
                             !.constraint = constraint,
                             !.actual_start = starts[1], !.start = starts[2]] :
      duration \in 0..MaxDuration,
      depends_on \in { <<>>, << <<DepString(Id("W1"))>> >> }
                       \cup { << <<DepObject(Id("A"), lag)>> >> : lag \in DatesLags },
      constraint \in Present({24}),
      starts \in { << <<>>, <<>> >>, << <<TextDate(23)>>, <<>> >>, << <<>>, <<TextDate(23)>> >> } }

\* task C follows A and, with lag 1, B
DatesTaskC ==
  [TextTask(Id("C")) EXCEPT !.duration = <<1>>,
     !.depends_on = << <<DepString(Id("A")), DepObject(Id("B"), 1)>> >>]

\* P > W1 > A and P > W2 > B, C, in this order or in the reverse order
DatesDocument(cal, a, b, c, reversed) ==
  LET w1 == [id |-> Id("W1"), name |-> "workstream", tasks |-> <<a>>]
      w2 == [id |-> Id("W2"), name |-> "workstream",
             tasks |-> IF reversed THEN <<c, b>> ELSE <<b, c>>]
  IN  [project |-> [start_date |-> <<TextDate(DEFAULT_START_DAY)>>],
       calendar |-> cal,
       phases |-> << [id |-> Id("P"), name |-> "phase",
                      workstreams |-> IF reversed THEN <<w2, w1>> ELSE <<w1, w2>>] >>]

InitDates ==
  /\ \E a \in DatesTasksA, b \in DatesTasksB, cal \in DatesCalendars, reversed \in BOOLEAN :
       yamlContent = DatesDocument(cal, a, b, DatesTaskC, reversed)
  /\ now = DefaultNow
  /\ schedule = NoSchedule
  /\ CalendarIdle
  /\ RouteIdle
  /\ EditorIdle

SpecDates == InitDates /\ [][NextLoad]_vars

(***************************************************************************)
(* GET /api/schedule.  A path is the sequence of its segments from the     *)
(* root; the file parameter is the sequence of the segments its text has   *)
(* between the slashes.  The content of a file is modelled by its path.    *)
(***************************************************************************)
\* path.normalize of an absolute path: "." is dropped, ".." removes the
\* segment before it and is dropped at the root
RECURSIVE normalize(_, _, _)
normalize(segments, i, acc) ==
  IF i > Len(segments)
    THEN acc
    ELSE normalize(segments, i + 1,
           CASE segments[i] = "." -> acc
             [] segments[i] = ".." -> (IF acc = <<>> THEN acc ELSE SubSeq(acc, 1, Len(acc) - 1))
             [] OTHER -> Append(acc, segments[i]))

\* path.join: the arguments joined by the separator, then normalized
join(paths) == normalize(Flatten(paths), 1, <<>>)

\* process.cwd()
cwd == <<"app">>

DefaultFile == <<"schedule_v4.yaml">>

\* searchParams.get('file') || 'schedule_v4.yaml'
fileOrDefault(parameter) ==
  IF parameter = NoParameter \/ parameter.value = <<>> THEN DefaultFile ELSE parameter.value

\* the response of GET for the path it reads
GETResponse(fileSystem, path) ==
  IF path \in fileSystem
    THEN [status |-> 200, contentType |-> "text/yaml", body |-> path]
    ELSE [status |-> 500, contentType |-> "application/json",
          body |-> <<"Failed to load schedule file">>]

(***************************************************************************)
(* Specification SpecRoute: one GET /api/schedule request                  *)
(***************************************************************************)
MaxSegments == 3

Segments == {"..", ".", "public", "schedule_v4.yaml", "package.json"}

FileParameters ==
  {NoParameter} \cup
  { [given |-> TRUE, value |-> v] : v \in UNION { [1..n -> Segments] : n \in 0..MaxSegments } }

\* the application directory with its public directory, alone and below a
\* root that has files of its own
FileSystems ==
  { { <<"app", "public", "schedule_v4.yaml">>, <<"app", "package.json">> },
    { <<"app", "public", "schedule_v4.yaml">>, <<"app", "public", "public", "schedule_v4.yaml">>,
      <<"app", "package.json">>, <<"package.json">>, <<"public", "package.json">> } }

InitRoute ==
  /\ files \in FileSystems
  /\ file \in FileParameters
  /\ filePath = NoPath
  /\ response = NoResponse
  /\ yamlContent = EmptyDocument
  /\ now = DefaultNow
  /\ schedule = NoSchedule
  /\ EditorIdle
  /\ calendar = NoSchedule.calendar
  /\ startDate = 0
  /\ days = 0
  /\ added = NoDate
  /\ between = <<>>

\* GET(request)
GET ==
  /\ response = NoResponse
  /\ filePath' = join(<<cwd, <<"public">>, fileOrDefault(file)>>)
  /\ response' = GETResponse(files, filePath')
  /\ UNCHANGED <<calendarVars, yamlContent, now, schedule, editorVars, files, file>>

NextRoute == GET

SpecRoute == InitRoute /\ [][NextRoute]_vars

(***************************************************************************)
(* Vocabulary of the properties: the entries of a specification            *)
(***************************************************************************)
\* the ids of all entries (phases, workstreams, tasks) in document order
EntryIdsOf(data) ==
  Flatten([p \in 1..Len(data.phases) |->
    <<data.phases[p].id>> \o
    Flatten([w \in 1..Len(data.phases[p].workstreams) |->
      <<data.phases[p].workstreams[w].id>> \o
      [k \in 1..Len(data.phases[p].workstreams[w].tasks) |->
         data.phases[p].workstreams[w].tasks[k].id]])])

\* the leaf task entries in document order
LeafTasksOf(data) ==
  Flatten([p \in 1..Len(data.phases) |->
    Flatten([w \in 1..Len(data.phases[p].workstreams) |->
      data.phases[p].workstreams[w].tasks])])

HasDuplicateId(data) ==
  LET ids == EntryIdsOf(data)
  IN  \E i \in 1..Len(ids) : \E j \in 1..Len(ids) : i # j /\ ids[i] = ids[j]

RawDependsOn(taskData) ==
  IF taskData.depends_on = <<>>
    THEN {}
    ELSE { taskData.depends_on[1][i].id : i \in 1..Len(taskData.depends_on[1]) }

Data == yamlLoad(yamlContent)

Constructed == schedule.state # "none"

Loaded == schedule.state = "loaded"

Raised == schedule.state = "error"

LeafIds == { id \in DOMAIN schedule.tasks.get : schedule.tasks.get[id].level = 3 }

(***************************************************************************)
(* C1: every task of a single finish-to-start chain is critical            *)
(***************************************************************************)
IsFinishToStartChain(data) ==
  LET leaves == LeafTasksOf(data)
      n == Len(leaves)
      calendarData == loadCalendar(data.calendar)
  IN  /\ n >= 1
      /\ ~HasDuplicateId(data)
      /\ calendarData.duration_unit = WORKING_DAYS
      /\ \A i \in 1..n :
           /\ leaves[i].id # NoId
           /\ OrZero(leaves[i].duration) > 0
           /\ leaves[i].actual_start = <<>> /\ leaves[i].actual_finish = <<>>
           /\ leaves[i].constraint = <<>> /\ leaves[i].start = <<>>
           /\ OrZero(leaves[i].progress) = 0
           /\ leaves[i].depends_on = <<>> \/ Len(leaves[i].depends_on[1]) = 1
           /\ \A d \in 1..(IF leaves[i].depends_on = <<>> THEN 0 ELSE 1) :
                /\ parseDependency(leaves[i].depends_on[1][d]).lag = 0
                /\ \E j \in 1..n : j # i /\ leaves[j].id = leaves[i].depends_on[1][d].id
           \* at most one task depends on this one
           /\ Cardinality({ j \in 1..n : leaves[i].id \in RawDependsOn(leaves[j]) }) <= 1
      /\ Cardinality({ i \in 1..n : leaves[i].depends_on = <<>> }) = 1

\* C1: after loading a single finish-to-start chain (lag 0, positive
\* durations, no actual dates, no constraints, working-day calendar), every
\* task of the chain has is_critical = TRUE
C1_ChainIsCritical ==
  (Loaded /\ IsFinishToStartChain(Data)) =>
     \A id \in LeafIds : schedule.tasks.get[id].is_critical

(***************************************************************************)
(* C3: circular dependencies                                               *)
(***************************************************************************)
\* the ids reachable from the set S along the edges
RECURSIVE ReachableFrom(_, _)
ReachableFrom(edges, S) ==
  LET S2 == S \cup { e[2] : e \in { x \in edges : x[1] \in S } }
  IN  IF S2 = S THEN S ELSE ReachableFrom(edges, S2)

HasCycle(edges) ==
  \E e \in edges : e[1] \in ReachableFrom(edges, {e[2]})

\* the dependency edges written in the specification
RawEdges(data) ==
  LET leaves == LeafTasksOf(data)
  IN  UNION { { <<leaves[i].id, d>> : d \in RawDependsOn(leaves[i]) } : i \in 1..Len(leaves) }

\* the task map that load builds before it validates
TaskMapOf(data) ==
  loadPhases([tasks |-> EmptyMap, phases |-> <<>>, workstreams |-> <<>>],
             data.phases, 1).tasks

\* the dependency edges of the entries kept in the task map
MapEdges(m) ==
  UNION { { <<id, m.get[id].dependencies[i].task_id>> :
              i \in 1..Len(m.get[id].dependencies) } : id \in DOMAIN m.get }

\* path lists ids along edges and ends by repeating one of its ids
IsCyclePath(edges, path) ==
  /\ Len(path) >= 2
  /\ \A i \in 1..(Len(path) - 1) : <<path[i], path[i + 1]>> \in edges
  /\ \E i \in 1..(Len(path) - 1) : path[i] = path[Len(path)]

\* C3 as stated: for every specification whose dependency graph contains a
\* cycle, constructing the schedule raises ValidationError and the message
\* lists task ids along a dependency path that ends by repeating an id of
\* the cycle
C3_CycleRaisesWithPath ==
  (Constructed /\ HasCycle(RawEdges(Data))) =>
     /\ Raised
     /\ schedule.error.kind = "circular_dependency"
     /\ IsCyclePath(RawEdges(Data), schedule.error.path)

\* C3 amended: whenever the entries kept in the task map have a dependency
\* cycle, constructing raises ValidationError; when moreover every entry has
\* an id and every dependency names an existing id, the error is the
\* circular-dependency error and its message lists ids along a dependency
\* path that ends by repeating an id of the cycle
C3_CycleRaisesWithPathWhenResolved ==
  LET m == TaskMapOf(Data)
      edges == MapEdges(m)
  IN  (Constructed /\ HasCycle(edges)) =>
        /\ Raised
        /\ ((NoId \notin DOMAIN m.get /\ \A e \in edges : e[2] \in DOMAIN m.get) =>
              /\ schedule.error.kind = "circular_dependency"
              /\ IsCyclePath(edges, schedule.error.path))

\* a cycle that is only reached from a task outside it has been reported
C3_Witness ==
  /\ Raised
  /\ schedule.error.kind = "circular_dependency"
  /\ Len(schedule.error.path) >= 4
  /\ schedule.error.path[1] # schedule.error.path[Len(schedule.error.path)]

(***************************************************************************)
(* C4: duplicate ids                                                       *)
(***************************************************************************)
\* C4: a specification in which two entries carry the same id raises
\* ValidationError, so that in every loaded schedule the task map has as
\* many entries as the specification has phases, workstreams and tasks
C4_DuplicateIdRaises ==
  /\ (Constructed /\ HasDuplicateId(Data)) => Raised
  /\ Loaded => Cardinality(DOMAIN schedule.tasks.get) = Len(EntryIdsOf(Data))

(***************************************************************************)
(* C5: resolvable dependencies, milestone duration, progress range         *)
(***************************************************************************)
ViolatesTaskRules(data) ==
  LET leaves == LeafTasksOf(data)
      ids == SeqToSet(EntryIdsOf(data))
  IN  \E i \in 1..Len(leaves) :
        \/ \E d \in RawDependsOn(leaves[i]) : d \notin ids
        \/ leaves[i].milestone = <<TRUE>> /\ OrZero(leaves[i].duration) # 0
        \/ OrZero(leaves[i].progress) < 0
        \/ OrZero(leaves[i].progress) > 100

\* C5: in every constructed schedule every dependency names an id of the
\* task map, every milestone has duration 0 and every progress is in
\* 0..100; a specification violating one of these raises ValidationError
C5_TaskRulesEnforced ==
  /\ Loaded =>
       \A id \in DOMAIN schedule.tasks.get :
         LET task == schedule.tasks.get[id]
         IN  /\ \A i \in 1..Len(task.dependencies) :
                  task.dependencies[i].task_id \in DOMAIN schedule.tasks.get
             /\ task.milestone => task.duration = 0
             /\ 0 <= task.progress /\ task.progress <= 100
  /\ (Constructed /\ ViolatesTaskRules(Data)) => Raised

(***************************************************************************)
(* C2: round trip of addWorkingDays and workingDaysBetween                 *)
(***************************************************************************)
\* C2: in working-day mode, for every calendar, every start date a and every
\* n >= 0, workingDaysBetween(a, addWorkingDays(a, n)) = n
C2_RoundTrip ==
  (calendar.duration_unit = WORKING_DAYS /\ days >= 0 /\ between # <<>>) =>
     between[1] = days

\* C2 amended: in working-day mode, for every calendar, every n >= 0 and
\* every start date a that is a working day of the calendar (or n = 0),
\* workingDaysBetween(a, addWorkingDays(a, n)) = n
C2_RoundTripFromWorkingDay ==
  (/\ calendar.duration_unit = WORKING_DAYS
   /\ days >= 0
   /\ between # <<>>
   /\ (days = 0 \/ isWorkingDay(calendar, startDate))) =>
     between[1] = days

\* a round trip from a working day that stepped over a non-working day
C2_Witness ==
  /\ calendar.duration_unit = WORKING_DAYS
  /\ isWorkingDay(calendar, startDate)
  /\ days >= 2
  /\ between = <<days>>
  /\ added > addDays(startDate, days)


(***************************************************************************)
(* Vocabulary of the properties: the rules that match the command          *)
(***************************************************************************)
Cleaned == toLowerCase(trim(command))

\* <<i, m>> for every rule i of the table that matches the text, m its match
RuleMatches ==
  LET cleaned == Cleaned
  IN  { r \in { <<i, RegExpExec(cleaned, initPatterns[i].pattern)>> :
                  i \in 1..Len(initPatterns) } : r[2].ok }

\* <<i, cmd>> for every matching rule i, cmd the command it builds with its
\* final confidence (TypeError when building it throws)
RuleResults ==
  LET cleaned == Cleaned
  IN  { <<r[1], ruleCommand(editor, fuse, command, cleaned, initPatterns[r[1]], r[2])>> :
          r \in RuleMatches }

\* the entity the match m of a rule captures, in upper case; <<>> for none
RuleCandidate(rule, m) == toUpperCase(Group(Cleaned, m, taskIdGroupIndex(rule)))

Parsed == parsed # NoCommand

Threw == parsed = TypeError

Returned == Parsed /\ ~Threw

ShowIntents == {"show_critical_path", "show_milestones", "show_variance", "show_status"}

EditIntents ==
  {"set_progress", "mark_complete", "extend_duration", "shorten_duration", "set_duration",
   "add_risk", "set_actual_start", "set_actual_finish", "add_dependency", "add_lag",
   "add_constraint"}

(***************************************************************************)
(* C6: a set_progress command taken through diff and apply sets progress   *)
(***************************************************************************)
\* what the constructor was given
Original == yamlLoad(yamlContent)

\* what the text applyDiff returned last holds
Updated == yamlLoad(updatedYAML[Len(updatedYAML)])

\* the specification satisfies the rules of a valid specification
ValidSpecification(data) ==
  ~HasDuplicateId(data) /\ load(data, now).state = "loaded"

LeafIdsOf(data) ==
  LET tasks == LeafTasksOf(data) IN { tasks[i].id : i \in 1..Len(tasks) }

\* the parsed command is a set_progress command for a leaf task of a valid
\* specification with a value in 0..100, its diff was generated and
\* applied, and the returned text was loaded again
SetProgressApplied ==
  /\ Returned
  /\ parsed.intent = "set_progress"
  /\ parsed.task_id \in LeafIdsOf(Original)
  /\ parsed.value.n \in 0..100
  /\ ValidSpecification(Original)
  /\ updatedYAML # <<>>
  /\ schedule = load(Updated, now)

\* data with the progress field of the entry at path blanked
ExceptProgress(data, path) ==
  [p \in 1..Len(data.phases) |->
    [w \in 1..Len(data.phases[p].workstreams) |->
      [k \in 1..Len(data.phases[p].workstreams[w].tasks) |->
        LET task == data.phases[p].workstreams[w].tasks[k]
        IN  [f \in DOMAIN task |->
               IF <<p, w, k>> = path /\ f = "progress" THEN <<>> ELSE task[f]]]]]

\* everything of the document but the tasks of its workstreams
Frame(data) ==
  [project |-> data.project, calendar |-> data.calendar,
   phases |-> [p \in 1..Len(data.phases) |->
     [f \in DOMAIN data.phases[p] |->
        IF f # "workstreams" THEN data.phases[p][f]
        ELSE [w \in 1..Len(data.phases[p].workstreams) |->
                [g \in DOMAIN data.phases[p].workstreams[w] \ {"tasks"} |->
                   data.phases[p].workstreams[w][g]]]]]]

\* C6: for a leaf task T of a valid specification and v in 0..100, after a
\* set_progress command naming T with value v was parsed, its diff
\* generated and applied, and the returned text loaded again, the load
\* succeeds with tasks[T].progress = v, and the raw fields of every other
\* task and the other fields of T are what they were.
C6_SetProgressRoundTrip ==
  SetProgressApplied =>
    LET T == parsed.task_id
        path == findTaskDataInYAML(Original, T)
    IN  /\ schedule.state = "loaded"
        /\ schedule.tasks.get[T].progress = parsed.value.n
        /\ ExceptProgress(Updated, path) = ExceptProgress(Original, path)
        /\ Frame(Updated) = Frame(Original)

\* the progress of T was changed by the edit
C6_Witness ==
  /\ SetProgressApplied
  /\ schedule.state = "loaded"
  /\ LET path == findTaskDataInYAML(Original, parsed.task_id)
     IN  /\ EntryAt(Original, path).progress = <<50>>
         /\ EntryAt(Updated, path).progress = <<75>>
  /\ schedule.tasks.get[parsed.task_id].progress = 75

(***************************************************************************)
(* C7: the matching rule of highest final confidence wins, earliest first  *)
(***************************************************************************)
\* C7: when rules match, the command parseCommand returns is the one built
\* from a matching rule whose final confidence is the maximum over all
\* matching rules of the table, and no earlier matching rule reaches that
\* maximum.
C7_HighestConfidenceWins ==
  LET results == RuleResults
  IN  (Returned /\ results # {}) =>
        \E r \in results :
          /\ parsed = r[2]
          /\ \A q \in results : q[2].confidence <= r[2].confidence
          /\ \A q \in results : q[1] < r[1] => q[2].confidence < r[2].confidence

\* a later rule beats the first matching rule, and a still later rule ties
\* with the winner
C7_Witness ==
  LET results == RuleResults
  IN  /\ Returned
      /\ \E p, r, q \in results :
           /\ p[1] < r[1] /\ r[1] < q[1]
           /\ parsed = r[2]
           /\ p[2].confidence < r[2].confidence
           /\ q[2].confidence = r[2].confidence

(***************************************************************************)
(* C8: an exactly matched id gives confidence 0.95 or more                 *)
(***************************************************************************)
\* the returned command was built by a rule whose captured entity is
\* exactly an id of the specification
ExactlyMatched ==
  /\ Returned
  /\ parsed.intent # "unknown"
  /\ \E r \in RuleMatches :
       /\ initPatterns[r[1]].source = parsed.matched_pattern
       /\ LET candidate == RuleCandidate(initPatterns[r[1]], r[2])
          IN  candidate # <<>> /\ findTaskInYAML(editor, candidate)

\* C8: a command parseCommand returns whose rule captured an entity that is
\* exactly an id of the specification has confidence at least 0.95.
C8_ExactMatchConfidence ==
  ExactlyMatched => parsed.confidence >= Confidence(95)

(***************************************************************************)
(* C9: parseCommand never throws; unknown exactly when no rule matches     *)
(***************************************************************************)
\* C9: parseCommand does not throw; it returns intent unknown with
\* confidence 0.0 and is_query false exactly when no rule matches the
\* trimmed, lower-cased text, and otherwise a confidence above 0 and at
\* most 1.0.
C9_NeverThrows ==
  LET matches == RuleMatches
  IN  Parsed =>
        /\ ~Threw
        /\ (parsed.intent = "unknown" /\ parsed.confidence = 0 /\ ~parsed.is_query)
             <=> (matches = {})
        /\ matches # {} => (parsed.confidence > 0 /\ parsed.confidence <= ConfidenceOne)

(***************************************************************************)
(* C10: the show_ intents have confidence 1.0; is_query marks the queries  *)
(***************************************************************************)
\* C10: a returned command with one of the four show_ intents has
\* confidence exactly 1.0, and is_query is true exactly when the intent is
\* a show_ intent or what_if: false for every edit intent and for unknown.
C10_QueryCommands ==
  Returned =>
    /\ parsed.intent \in ShowIntents \cup EditIntents \cup {"what_if", "unknown"}
    /\ parsed.intent \in ShowIntents => parsed.confidence = ConfidenceOne
    /\ parsed.is_query <=> parsed.intent \in ShowIntents \cup {"what_if"}

\* a show_ command was returned for a text that an edit rule matches too
C10_Witness ==
  /\ Returned
  /\ parsed.intent \in ShowIntents
  /\ parsed.is_query
  /\ \E r \in RuleMatches : initPatterns[r[1]].intent \in EditIntents

(***************************************************************************)
(* C11: generateDiff is empty for queries and unresolved commands, and     *)
(* otherwise carries the raw old values                                    *)
(***************************************************************************)
\* generateDiff has returned and applyDiff has not been called yet
DiffGenerated == diffs # <<>> /\ updatedYAML = <<>>

\* the first entry of the document with the given id
EntryOf(data, id) ==
  LET paths == EntryPaths(data)
  IN  EntryAt(data, paths[SetMin({ i \in 1..Len(paths) : EntryAt(data, paths[i]).id = id })])

\* the value an absent raw field stands for
FieldDefault(field) ==
  CASE field \in {"progress", "duration"} -> <<0>>
    [] field = "status" -> <<"not_started">>
    [] field \in {"status_note", "depends_on"} -> << <<>> >>
    [] OTHER -> <<>>

RawOrDefault(entry, field) ==
  IF field \in DOMAIN entry /\ entry[field] # <<>> THEN entry[field] ELSE FieldDefault(field)

SeqIds(ids) == { ids[i] : i \in 1..Len(ids) }

\* C11: the list generateDiff returns is empty when the command is a query,
\* has no resolved task_id, names an id the raw specification does not hold
\* or has intent unknown; for any other command with an edit intent it holds
\* at least one diff, each with the command's task_id and, as old_value,
\* the raw value of its field in the specification or the default of the
\* field when the entry does not have it.
C11_GenerateDiff ==
  DiffGenerated =>
    LET list == diffs[1]
    IN  IF \/ parsed.is_query
           \/ parsed.intent = "unknown"
           \/ parsed.task_id = <<>>
           \/ parsed.task_id \notin SeqIds(EntryIdsOf(editor))
          THEN list = <<>>
          ELSE parsed.intent \in EditIntents =>
                 /\ Len(list) >= 1
                 /\ \A i \in 1..Len(list) :
                      /\ list[i].task_id = parsed.task_id
                      /\ list[i].old_value =
                           RawOrDefault(EntryOf(editor, parsed.task_id), list[i].field)

\* a diff for a field the entry holds, and one for a field it does not hold
C11_Witness ==
  /\ DiffGenerated
  /\ Len(diffs[1]) = 2
  /\ diffs[1][1].field = "progress" /\ diffs[1][1].old_value = <<50>>
  /\ diffs[1][2].field = "status" /\ diffs[1][2].old_value = <<"in_progress">>

(***************************************************************************)
(* C12: mark_complete and add_risk give two diffs, and both are applied    *)
(***************************************************************************)
\* the parsed command has the given intent and its task_id is the id of an
\* entry of the specification the editor was constructed from
ResolvedCommand(intent) ==
  /\ Returned
  /\ parsed.intent = intent
  /\ parsed.task_id \in SeqIds(EntryIdsOf(Original))

\* the fields and new values of a list of diffs, in order
Changes(list) == [i \in 1..Len(list) |-> <<list[i].field, list[i].new_value>>]

\* C12: for a resolved task, the list generateDiff returns for a
\* mark_complete command is exactly progress -> 100 and status -> complete,
\* and for an add_risk command exactly status_note -> the note and
\* status -> at_risk; once applyDiff was called with the list, the entry of
\* the task holds both new values in the editor and in the returned text.
C12_CompoundDiffs ==
  /\ (diffs # <<>> /\ ResolvedCommand("mark_complete")) =>
       /\ Changes(diffs[1]) = << <<"progress", <<100>> >>, <<"status", <<"complete">> >> >>
       /\ updatedYAML # <<>> =>
            \A data \in {editor, Updated} :
              LET entry == EntryOf(data, parsed.task_id)
              IN  Field(entry, "progress") = <<100>> /\ Field(entry, "status") = <<"complete">>
  /\ (diffs # <<>> /\ ResolvedCommand("add_risk")) =>
       /\ Changes(diffs[1]) =
            << <<"status_note", <<parsed.value.s>> >>, <<"status", <<"at_risk">> >> >>
       /\ updatedYAML # <<>> =>
            \A data \in {editor, Updated} :
              LET entry == EntryOf(data, parsed.task_id)
              IN  /\ Field(entry, "status_note") = <<parsed.value.s>>
                  /\ Field(entry, "status") = <<"at_risk">>

\* a half-done task in progress was marked complete and the list applied
C12_Witness ==
  /\ ResolvedCommand("mark_complete")
  /\ updatedYAML # <<>>
  /\ Field(EntryOf(Original, parsed.task_id), "progress") = <<50>>
  /\ Field(EntryOf(Original, parsed.task_id), "status") = <<"in_progress">>
  /\ Field(EntryOf(Updated, parsed.task_id), "progress") = <<100>>
  /\ Field(EntryOf(Updated, parsed.task_id), "status") = <<"complete">>

(***************************************************************************)
(* C13: a diff for an id the specification does not hold changes nothing   *)
(***************************************************************************)
\* the entry with the new values of the diffs of the list that name its id,
\* a later diff for the same field prevailing
Patched(entry, list) ==
  LET mine == { i \in 1..Len(list) : list[i].task_id = entry.id }
  IN  [f \in DOMAIN entry \cup { list[i].field : i \in mine } |->
         LET hits == { i \in mine : list[i].field = f }
         IN  IF hits # {} THEN list[SetMax(hits)].new_value ELSE entry[f]]

\* the document in which every entry is patched with the list
PatchedDocument(data, list) ==
  [project |-> data.project, calendar |-> data.calendar,
   phases |-> [p \in 1..Len(data.phases) |->
     [Patched(data.phases[p], list) EXCEPT !.workstreams = [w \in 1..Len(@) |->
        [Patched(@[w], list) EXCEPT !.tasks = [k \in 1..Len(@) |->
           Patched(@[k], list)]]]]]]

\* some diff of the list names an id the constructor's document lacks
HasAbsentId(list) ==
  \E i \in 1..Len(list) : list[i].task_id \notin SeqIds(EntryIdsOf(Original))

RECURSIVE SumSeq(_)
SumSeq(numbers) == IF numbers = <<>> THEN 0 ELSE Head(numbers) + SumSeq(Tail(numbers))

\* the tasks of the loaded schedule, in the order of the map
LoadedTasks == [i \in 1..Len(schedule.tasks.order) |-> schedule.tasks.get[schedule.tasks.order[i]]]

\* the entries of the given level, as a set
TasksOfLevel(level) ==
  { LoadedTasks[i] : i \in { j \in 1..Len(LoadedTasks) : LoadedTasks[j].level = level } }

\* the level-3 tasks of a workstream and the workstreams of a phase
ChildrenOf(summary) ==
  IF summary.level = 2
    THEN SelectSeq(LoadedTasks, LAMBDA t : t.level = 3 /\ t.workstream_id = summary.id)
    ELSE SelectSeq(LoadedTasks, LAMBDA t : t.level = 2 /\ t.phase_id = summary.id)

TotalDuration(children) == SumSeq([i \in 1..Len(children) |-> children[i].duration])

WeightedProgress(children) ==
  SumSeq([i \in 1..Len(children) |-> children[i].progress * children[i].duration])

\* r is numerator / denominator rounded to the nearest integer, a half
\* rounding up
IsRounded(r, numerator, denominator) ==
  /\ 2 * denominator * r - denominator <= 2 * numerator
  /\ 2 * numerator < 2 * denominator * r + denominator

Severity ==
  [status \in Statuses |->
     CASE status = "delayed" -> 4
       [] status = "at_risk" -> 3
       [] status = "on_track" -> 2
       [] status = "complete" -> 1
       [] OTHER -> 0]

\* status is the status of greatest severity among the children
IsMostSevere(status, children) ==
  /\ \E i \in 1..Len(children) : children[i].status = status
  /\ \A i \in 1..Len(children) : Severity[children[i].status] <= Severity[status]

\* C15: after load, the status of every workstream that has leaf tasks is
\* the status of greatest severity among them in the order delayed >
\* at_risk > on_track > complete > not_started, and the status of every
\* phase that has workstreams is the status of greatest severity among the
\* rolled-up statuses of its workstreams.
C15_RollupStatus ==
  Loaded =>
    \A summary \in TasksOfLevel(1) \cup TasksOfLevel(2) :
      ChildrenOf(summary) # <<>> => IsMostSevere(summary.status, ChildrenOf(summary))

\* on_track prevails over complete in a workstream, and the delayed status
\* of the other workstream prevails in the phase
C15_Witness ==
  /\ Loaded
  /\ \E ws \in TasksOfLevel(2) :
       /\ { ChildrenOf(ws)[i].status : i \in 1..Len(ChildrenOf(ws)) } = {"complete", "on_track"}
       /\ ws.status = "on_track"
       /\ \E phase \in TasksOfLevel(1) :
            /\ ws.phase_id = phase.id
            /\ phase.status = "delayed"

(***************************************************************************)
(* C16: summaries span their children, and the project ends with its last  *)
(* leaf task                                                               *)
(***************************************************************************)
StartsOf(children) == { children[i].start_date : i \in 1..Len(children) } \ {NoDate}

EndsOf(children) == { children[i].end_date : i \in 1..Len(children) } \ {NoDate}

\* the earliest of the dates is start and the latest is end
Spans(start, end, starts, ends) ==
  /\ start \in starts /\ \A d \in starts : start <= d
  /\ end \in ends /\ \A d \in ends : d <= end

LeafEnds == { t.end_date : t \in TasksOfLevel(3) }

\* C16: after load, every workstream with a leaf task starts with its
\* earliest and ends with its latest leaf task, every phase starts and ends
\* with the earliest start and latest end of its workstreams, and
\* getProjectDates().end is the latest end_date of the leaf tasks, the
\* project end of the backward pass.
C16_RollupDates ==
  Loaded =>
    /\ \A ws \in TasksOfLevel(2) :
         LET children == ChildrenOf(ws)
         IN  children # <<>> =>
               /\ \A i \in 1..Len(children) :
                    children[i].start_date # NoDate /\ children[i].end_date # NoDate
               /\ Spans(ws.start_date, ws.end_date, StartsOf(children), EndsOf(children))
    /\ \A phase \in TasksOfLevel(1) :
         LET children == ChildrenOf(phase)
         IN  StartsOf(children) # {} =>
               Spans(phase.start_date, phase.end_date, StartsOf(children), EndsOf(children))
    /\ LeafEnds # {} =>
         /\ getProjectDates(schedule).end \in LeafEnds
         /\ \A d \in LeafEnds : d <= getProjectDates(schedule).end
         /\ getProjectDates(schedule).end = projectEnd(schedule.tasks)

\* the last task of a workstream is not its latest, and the project ends
\* with a task of the second phase
C16_Witness ==
  /\ Loaded
  /\ \E ws \in TasksOfLevel(2) :
       LET children == ChildrenOf(ws)
       IN  /\ Len(children) = 2
           /\ children[2].end_date < children[1].end_date
           /\ ws.end_date = children[1].end_date
           /\ ws.end_date < getProjectDates(schedule).end
  /\ \E phase \in TasksOfLevel(1) :
       /\ phase.end_date < getProjectDates(schedule).end
       /\ phase.start_date < phase.end_date

(***************************************************************************)
(* C17: addWorkingDays with a negative or zero number of days              *)
(***************************************************************************)
\* the date reached from current by stepping backward one calendar day at
\* a time until n working days have been counted
RECURSIVE SteppedBackward(_, _, _)
SteppedBackward(cal, current, n) ==
  IF n = 0
    THEN current
    ELSE LET previous == addDays(current, -1)
         IN  SteppedBackward(cal, previous,
               IF isWorkingDay(cal, previous) THEN n - 1 ELSE n)

\* C17: in working-day mode addWorkingDays(start, n) with n < 0 returns the
\* date reached by stepping backward until |n| working days have been
\* counted, a date strictly before start, and addWorkingDays(start, 0)
\* returns start unchanged.
C17_NegativeDaysStepBackward ==
  (calendar.duration_unit = WORKING_DAYS /\ added # NoDate) =>
     /\ days < 0 => /\ added = SteppedBackward(calendar, startDate, -days)
                    /\ added < startDate
     /\ days = 0 => added = startDate

(***************************************************************************)
(* C18: entity resolution compares the token with the ids up to letter     *)
(* case                                                                    *)
(***************************************************************************)
\* the ids of the specification that equal the token up to letter case
IdsEqualUpToCase(data, token) ==
  { id \in SeqToSet(EntryIdsOf(data)) : toLowerCase(id) = toLowerCase(token) }

\* C18: in a returned command whose rule captured a token, task_id is the
\* id of the specification that equals the token up to letter case, with
\* the +0.05 boost, whenever there is such an id; only otherwise the fuzzy
\* lookup decides: its result is taken when its score is at least 0.7 and
\* task_id stays unresolved when it is not.
C18_CaseInsensitiveIdMatch ==
  (Returned /\ parsed.intent \notin {"unknown", "add_lag"} /\ editor # NoData) =>
    \A r \in RuleMatches :
      LET rule == initPatterns[r[1]]
          token == Group(Cleaned, r[2], taskIdGroupIndex(rule))
          same == IdsEqualUpToCase(editor, token)
          fuzzyResult == fuzzyFindTask(editor, fuse, toUpperCase(token))
      IN  (rule.source = parsed.matched_pattern /\ token # <<>>) =>
            IF same # {}
              THEN /\ parsed.task_id \in same
                   /\ parsed.confidence = Min(ConfidenceOne, plusBoost(rule.base_confidence))
              ELSE IF fuzzyResult # <<>> /\ fuzzyResult[1].score >= 70
                THEN parsed.task_id = fuzzyResult[1].id
                ELSE parsed.task_id = <<>>

(***************************************************************************)
(* C19: the error raised is the one of the earliest violated rule          *)
(***************************************************************************)
ValidationRules ==
  <<"missing_id", "duplicate_id", "unresolved_dependency", "circular_dependency",
    "milestone_duration", "progress_range">>

\* the specification violates the rule of the given kind
ViolatesRule(data, kind) ==
  LET leaves == LeafTasksOf(data)
      ids == EntryIdsOf(data)
  IN  CASE kind = "missing_id" -> \E i \in 1..Len(ids) : ids[i] = NoId
        [] kind = "duplicate_id" -> HasDuplicateId(data)
        [] kind = "unresolved_dependency" ->
             \E i \in 1..Len(leaves) : \E d \in RawDependsOn(leaves[i]) : d \notin SeqToSet(ids)
        [] kind = "circular_dependency" -> HasCycle(RawEdges(data))
        [] kind = "milestone_duration" ->
             \E i \in 1..Len(leaves) :
               leaves[i].milestone = <<TRUE>> /\ OrZero(leaves[i].duration) # 0
        [] kind = "progress_range" ->
             \E i \in 1..Len(leaves) :
               OrZero(leaves[i].progress) < 0 \/ OrZero(leaves[i].progress) > 100

\* the positions in ValidationRules of the rules the specification violates
ViolatedRules(data) ==
  { k \in 1..Len(ValidationRules) : ViolatesRule(data, ValidationRules[k]) }

\* C19: when the specification violates several validation rules, the
\* ValidationError raised is the one of the earliest violated rule in the
\* order missing id, duplicate id, unresolved dependency, circular
\* dependency, milestone duration, progress range, wherever the offending
\* tasks stand in the specification.
C19_EarliestRuleRaised ==
  (Constructed /\ Cardinality(ViolatedRules(Data)) >= 2) =>
    \A k \in 1..Len(ValidationRules) :
      (/\ ViolatesRule(Data, ValidationRules[k])
       /\ \A j \in 1..(k - 1) : ~ViolatesRule(Data, ValidationRules[j]))
        => (Raised /\ schedule.error.kind = ValidationRules[k])

(***************************************************************************)
(* C20: GET /api/schedule reads inside the public directory only           *)
(***************************************************************************)
publicDirectory == Append(cwd, "public")

\* the path lies inside the directory
IsInside(path, directory) ==
  Len(path) > Len(directory) /\ SubSeq(path, 1, Len(directory)) = directory

\* C20: whatever the file parameter, '..' segments included, either the
\* path GET reads lies inside <cwd>/public or the response has status 500.
C20_ReadsInsidePublicOnly ==
  response # NoResponse =>
    (IsInside(filePath, publicDirectory) \/ response.status = 500)

(***************************************************************************)
(* C21: the late dates of the backward pass                                *)
(***************************************************************************)
\* the date n days of the calendar's duration unit before the date (after
\* it when n is negative)
DaysBefore(cal, date, n) ==
  IF cal.duration_unit = CALENDAR_DAYS
    THEN addDays(date, -n)
    ELSE IF n >= 0 THEN SteppedBackward(cal, date, n) ELSE addWorkingDaysLoop(cal, date, 0, -n)

\* the leaf tasks of the loaded schedule
LeafTasks == { schedule.tasks.get[id] : id \in LeafIds }

SuccessorsOf(task) == { schedule.tasks.get[task.successors[i]] : i \in 1..Len(task.successors) }

\* the lag of the dependency entry of succ that points at the task
LagOf(succ, task) ==
  LET entries == { i \in 1..Len(succ.dependencies) : succ.dependencies[i].task_id = task.id }
  IN  succ.dependencies[SetMin(entries)].lag

\* C21: after load, every leaf task has late_start = late_finish minus its
\* duration in working days, and late_finish = the project end when it has
\* no successors, otherwise the minimum over its successors S of
\* S.late_start minus the lag of S's dependency on the task; a task with
\* positive duration has late_start strictly before late_finish, and
\* late_finish never exceeds a successor's late_start.
C21_LateDates ==
  Loaded =>
    \A task \in LeafTasks :
      LET cal == schedule.calendar
          fromSuccessors == { DaysBefore(cal, succ.late_start, LagOf(succ, task)) :
                                succ \in SuccessorsOf(task) }
      IN  /\ task.late_start = DaysBefore(cal, task.late_finish, task.duration)
          /\ task.late_finish = IF fromSuccessors = {}
                                  THEN projectEnd(schedule.tasks)
                                  ELSE SetMin(fromSuccessors)
          /\ task.duration > 0 => task.late_start < task.late_finish
          /\ \A succ \in SuccessorsOf(task) : task.late_finish <= succ.late_start

(***************************************************************************)
(* C22: the start of a task that has dependencies                          *)
(***************************************************************************)
\* addWorkingDays(predecessor.end_date, lag) for the dependencies of the task
PredecessorFinishes(task) ==
  { addWorkingDays(schedule.calendar, schedule.tasks.get[task.dependencies[i].task_id].end_date,
                   task.dependencies[i].lag) : i \in 1..Len(task.dependencies) }

\* C22: every leaf task that has dependencies and neither actual_start nor
\* actual_finish starts at the maximum over its dependencies of
\* addWorkingDays(predecessor.end_date, lag), raised to the date of a later
\* no_earlier_than constraint, whatever the order of the tasks in the
\* specification.
C22_StartAfterPredecessors ==
  Loaded =>
    \A task \in LeafTasks :
      (/\ Len(task.dependencies) > 0
       /\ task.actual_start = NoDate
       /\ task.actual_finish = NoDate)
        => task.start_date = Max(SetMax(PredecessorFinishes(task)), task.constraint)

(***************************************************************************)
(* C23: the no_earlier_than constraint is a floor of the start date        *)
(***************************************************************************)
ConstrainedTasks == { task \in LeafTasks : task.constraint # NoDate }

C24_FloatAndCritical ==
  (Loaded /\ LeafTasks # {}) =>
    /\ \A task \in LeafTasks :
         /\ task.float_days =
              workingDaysBetween(schedule.calendar, task.end_date, task.late_finish)
         /\ task.is_critical <=> task.float_days <= 0
    /\ \E task \in LeafTasks : task.is_critical

\* one task has float and is not critical, and the late finish of a
\* critical task precedes its end
C24_Witness ==
  /\ Loaded
  /\ \E task \in LeafTasks : task.float_days > 0 /\ ~task.is_critical
  /\ \E task \in LeafTasks : task.is_critical /\ task.late_finish < task.end_date

(***************************************************************************)
(* C25: an edit rule takes precedence over a query rule                    *)
(***************************************************************************)
\* the intents of the rules that match the command
MatchedIntents == { initPatterns[r[1]].intent : r \in RuleMatches }

\* C25: when the command is matched both by an edit rule and by a query
\* rule (show_critical_path, show_milestones, show_variance, show_status),
\* parseCommand returns the edit command and not the query.
C25_EditBeatsQuery ==
  LET intents == MatchedIntents
  IN  (Returned /\ intents \cap EditIntents # {} /\ intents \cap ShowIntents # {}) =>
        parsed.intent \in EditIntents

(***************************************************************************)
(* C26: constructing a schedule terminates                                 *)
(***************************************************************************)
\* C26: for every specification that passes validation the construction
\* finishes: the forward pass, the rollup and the backward pass return and
\* no call of addWorkingDays runs without reaching its day count, whatever
\* working_days list and holidays the calendar section gives.
C26_ConstructionTerminates ==
  schedule.state # "none" => schedule.state \in {"loaded", "error"}

(***************************************************************************)
(* C27: the text returned by applyDiff loads again                         *)
(***************************************************************************)
\* C27: starting from a specification that loads without error, the text
\* that a parseCommand -> generateDiff -> applyDiff cycle returns still loads
\* without ValidationError.
C27_EditedTextLoads ==
  (updatedYAML # <<>> /\ schedule.state # "none"
     /\ load(yamlLoad(yamlContent), now).state = "loaded") =>
    schedule.state # "error"

(***************************************************************************)
(* C28: the value of a set_progress command                                *)
(***************************************************************************)
\* the diffs of the generated list that set the field progress
ProgressDiffs ==
  IF diffs = <<>> THEN {}
  ELSE { d \in SeqToSet(diffs[1]) : d.field = "progress" }

\* C28: every command that parseCommand returns with intent set_progress
\* carries an integer value in 0..100, and a progress diff generated from it
\* sets a progress in 0..100.
C28_ProgressValueInRange ==
  (Returned /\ parsed.intent = "set_progress") =>
    /\ parsed.value.kind = "number"
    /\ parsed.value.n \in 0..100
    /\ \A d \in ProgressDiffs : d.new_value[1] \in 0..100

(***************************************************************************)
(* C29: holidays and non-working weekdays                                  *)
(***************************************************************************)
\* the date falls on the calendar day of a configured holiday
OnHoliday(cal, dt) ==
  \E h \in cal.holidays : dt \div TicksPerDay = h \div TicksPerDay

\* the weekday name of the date is a configured working day
OnWorkingWeekday(cal, dt) == dayNames[getDay(dt) + 1] \in cal.working_days

\* C29: isWorkingDay(d) is false when d falls on the calendar day of a
\* holiday, whatever its time of day, and otherwise true exactly when the
\* weekday of d is a working day; so in working-day mode the date that
\* addWorkingDays(start, n >= 1) returns is neither on a holiday nor on a
\* non-working weekday, also when start is an instant within a day.
C29_NoHolidayReturned ==
  /\ isWorkingDay(calendar, startDate) =
       (~OnHoliday(calendar, startDate) /\ OnWorkingWeekday(calendar, startDate))
  /\ (added # NoDate /\ calendar.duration_unit = WORKING_DAYS /\ days >= 1) =>
       (~OnHoliday(calendar, added) /\ OnWorkingWeekday(calendar, added))

(***************************************************************************)
(* C30: applyDiff is idempotent                                            *)
(***************************************************************************)
\* C30: applying the same diff list a second time to the editor returns
\* the same specification text as the first application, for every intent,
\* and after applyDiff the editor's getYAML() equals the text that applyDiff
\* returned.
C30_ApplyDiffIdempotent ==
  /\ Len(updatedYAML) = 2 => updatedYAML[2] = updatedYAML[1]
  /\ updatedYAML # <<>> => getYAML(editor) = updatedYAML[Len(updatedYAML)]

\* an extend_duration diff has been applied twice and has changed the
\* editor's document
C30_Witness ==
  /\ Len(updatedYAML) = 2
  /\ parsed # NoCommand
  /\ parsed # TypeError
  /\ parsed.intent = "extend_duration"
  /\ diffs[1] # <<>>
  /\ editor # yamlLoad(yamlContent)

====
